---- MODULE Spec2Model ----
(***************************************************************************)
(* Habit-Tracker-Agent: the reply interpreter (parse_habit_reply), the     *)
(* spreadsheet storage (update_habit_row, get_today_data, get_week_data),  *)
(* the confirmation formatter and the command dispatcher                   *)
(* (process_user_message), as a state machine over the spreadsheet.        *)
(*                                                                         *)
(* Texts are modelled by their parts: a delegate response is a code fence  *)
(* around a JSON body, a sheet cell is the value it displays, a reply text *)
(* is a record of what the f-string interpolates.                          *)
(***************************************************************************)
EXTENDS Integers, Sequences, FiniteSets, TLC

\* Bounds of the model.
\* MaxMessages: inbound messages processed in one behaviour.
MaxMessages == 2

(***************************************************************************)
(* shared/habit_config.py                                                  *)
(***************************************************************************)
HABITS ==
  << [name |-> "Walking/Running",         column_index |-> 2,  target_mins |-> 45],
     [name |-> "Sandhi - Morning",        column_index |-> 3,  target_mins |-> 10],
     [name |-> "Sandhi - Evening",        column_index |-> 4,  target_mins |-> 5],
     [name |-> "Yoga",                    column_index |-> 5,  target_mins |-> 15],
     [name |-> "Daily Brief",             column_index |-> 6,  target_mins |-> 20],
     [name |-> "Cook Morning",            column_index |-> 7,  target_mins |-> 30],
     [name |-> "Utensils",                column_index |-> 8,  target_mins |-> 15],
     [name |-> "Clothes",                 column_index |-> 9,  target_mins |-> 15],
     [name |-> "Upskilling/Professional", column_index |-> 10, target_mins |-> 30],
     [name |-> "Audiobooks/Reading",      column_index |-> 11, target_mins |-> 30],
     [name |-> "Job Applications",        column_index |-> 12, target_mins |-> 15] >>

DATA_START_ROW == 5
DATE_COLUMN == 1
DAY_COLUMN == 2
TOTAL_COLUMN == 14
PERCENTAGE_COLUMN == 15
\* DAILY_TARGET_MINUTES counting Job Applications in.
DAILY_TARGET_MINUTES_AllHabits ==
  LET Sum[i \in 0..Len(HABITS)] == IF i = 0 THEN 0 ELSE Sum[i - 1] + HABITS[i].target_mins
  IN  Sum[Len(HABITS)]

DAILY_TARGET_MINUTES == 215
NUM_HABIT_COLUMNS == 11

\* COMPOUND_ALIASES with an expansion naming a habit the catalog calls
\* otherwise.
COMPOUND_ALIASES_Dishes ==
  [alias \in {"sandhi both", "sandhi", "household", "all household"} |->
     CASE alias = "sandhi both" -> << "Sandhi - Morning", "Sandhi - Evening" >>
       [] alias = "sandhi" -> << "Sandhi - Morning" >>
       [] OTHER -> << "Cook Morning", "Dishes", "Clothes" >>]

\* habit_config.py lines 77-82
COMPOUND_ALIASES ==
  [alias \in {"sandhi both", "sandhi", "household", "all household"} |->
     CASE alias = "sandhi both" -> << "Sandhi - Morning", "Sandhi - Evening" >>
       [] alias = "sandhi" -> << "Sandhi - Morning" >>
       [] alias = "household" -> << "Cook Morning", "Utensils", "Clothes" >>
       [] alias = "all household" -> << "Cook Morning", "Utensils", "Clothes" >>]

get_all_habit_names == [i \in DOMAIN HABITS |-> HABITS[i].name]

get_habit_by_name(name) == HABITS[CHOOSE i \in DOMAIN HABITS : HABITS[i].name = name]

\* {h["name"] for h in HABITS}
valid_names == {HABITS[i].name : i \in DOMAIN HABITS}

(***************************************************************************)
(* Python built-ins the code relies on                                     *)
(***************************************************************************)
\* str.__lt__ on the names that occur (the catalog's, and the two names the
\* tests invent): the rank of a name in code point order.
StrRank(s) ==
  CASE s = "Audiobooks/Reading"      -> 1
    [] s = "Clothes"                 -> 2
    [] s = "Cook Morning"            -> 3
    [] s = "Daily Brief"             -> 4
    [] s = "Invalid Habit"           -> 5
    [] s = "Job Applications"        -> 6
    [] s = "Meditation"              -> 7
    [] s = "Sandhi - Evening"        -> 8
    [] s = "Sandhi - Morning"        -> 9
    [] s = "Upskilling/Professional" -> 10
    [] s = "Utensils"                -> 11
    [] s = "Walking/Running"         -> 12
    [] s = "Yoga"                    -> 13

\* sorted with reverse=True.
RECURSIVE sorted_Descending(_)
sorted_Descending(S) ==
  IF S = {} THEN << >>
  ELSE LET m == CHOOSE x \in S : \A y \in S : StrRank(x) >= StrRank(y)
       IN  << m >> \o sorted_Descending(S \ {m})

\* sorted(names): the names of S in ascending order.
RECURSIVE sorted(_)
sorted(S) ==
  IF S = {} THEN << >>
  ELSE LET m == CHOOSE x \in S : \A y \in S : StrRank(x) <= StrRank(y)
       IN  << m >> \o sorted(S \ {m})

\* sum(...) over the values of a mapping with integer values.
RECURSIVE SumValues(_)
SumValues(f) ==
  IF DOMAIN f = {} THEN 0
  ELSE LET k == CHOOSE x \in DOMAIN f : TRUE
       IN  f[k] + SumValues([x \in DOMAIN f \ {k} |-> f[x]])

\* int(x) of the float n/d (d > 0): truncation towards zero.
IntOfFloat(n, d) == IF n >= 0 THEN n \div d ELSE -((-n) \div d)

\* The empty dict.
EmptyMap == [x \in {} |-> 0]

(***************************************************************************)
(* The delegate's answers (the text of model.generate_content)             *)
(***************************************************************************)
\* A JSON value: the integer n, the float n/d, true, a string, NaN, Infinity.
JInt(n) == [t |-> "int", n |-> n, d |-> 1]
JFloat(n, d) == [t |-> "float", n |-> n, d |-> d]
JTrue == [t |-> "bool", n |-> 1, d |-> 1]
JStr == [t |-> "str", n |-> 0, d |-> 1]
JNaN == [t |-> "nan", n |-> 0, d |-> 1]
JInf == [t |-> "inf", n |-> 0, d |-> 1]

JValues == {JInt(20), JInt(0), JInt(-5), JFloat(41, 2), JTrue, JStr, JNaN, JInf}

\* Keys of a generic answer: a catalog name and a name outside the catalog.
KeyPool == {"Yoga", "Meditation"}

GenericMaps == UNION {[S -> JValues] : S \in SUBSET KeyPool}

\* tests/test_parse_reply.py line 109: a catalog name among invented names.
FilterTestMap ==
  [k \in {"Walking/Running", "Meditation", "Invalid Habit"} |->
     JInt(CASE k = "Walking/Running" -> 45 [] k = "Meditation" -> 20 [] k = "Invalid Habit" -> 10)]

\* tests/test_sheets_client.py lines 48-52 and spec section 8.
ScoreTestMap ==
  [k \in {"Walking/Running", "Sandhi - Morning", "Cook Morning"} |->
     JInt(CASE k = "Walking/Running" -> 45 [] k = "Sandhi - Morning" -> 10 [] k = "Cook Morning" -> 30)]

\* The answer of the end-to-end scenario: "walked 45, sandhi both, cooked,
\* utensils, clothes, read 20".
ScenarioMap ==
  [k \in {"Walking/Running", "Sandhi - Morning", "Sandhi - Evening", "Cook Morning",
          "Utensils", "Clothes", "Audiobooks/Reading"} |->
     JInt(CASE k = "Walking/Running" -> 45
            [] k = "Sandhi - Morning" -> 10
            [] k = "Sandhi - Evening" -> 5
            [] k = "Cook Morning" -> 30
            [] k = "Utensils" -> 15
            [] k = "Clothes" -> 15
            [] k = "Audiobooks/Reading" -> 20)]

\* "everything": every habit at its default duration (instruction rule 9).
AllDefaultsMap == [k \in valid_names |-> JInt(get_habit_by_name(k).target_mins)]

DelegateMaps == GenericMaps \cup {FilterTestMap, ScoreTestMap, ScenarioMap, AllDefaultsMap}

\* The JSON body of an answer:
\*   j = "text"       not JSON at all ("not valid json", prose around JSON)
\*   j = "nonobject"  JSON that is no object (a list, a number, a string, null)
\*   j = "object"     a JSON object; habits = "absent": the object is the mapping
\*                    map itself; habits = "object": {"habits": map};
\*                    habits = "other": {"habits": <a list, null, a number>}
TextBody == [j |-> "text", habits |-> "absent", map |-> EmptyMap]
NonObjectBody == [j |-> "nonobject", habits |-> "absent", map |-> EmptyMap]
HabitsOtherBody == [j |-> "object", habits |-> "other", map |-> EmptyMap]
ObjectBodies ==
  {[j |-> "object", habits |-> h, map |-> m] : h \in {"absent", "object"}, m \in DelegateMaps}
Bodies == {TextBody, NonObjectBody, HabitsOtherBody} \cup ObjectBodies

\* The answer's text: the body, bare or wrapped in a markdown code fence.
\*   fence = "none"     body
\*   fence = "closed"   ```json\n body \n```
\*   fence = "open"     ```json\n body          (no closing fence)
\*   fence = "oneline"  ``` with no line break after it (as in ```{...}```)
DelegateOutputs ==
  {[fence |-> f, body |-> b] : f \in {"none", "closed", "open"}, b \in Bodies}
    \cup {[fence |-> "oneline", body |-> TextBody]}

NoResponse == [fence |-> "unset", body |-> TextBody]

(***************************************************************************)
(* shared/gemini_client.py: one iteration of parse_habit_reply's loop      *)
(***************************************************************************)
\* Lines 82-87: the fence is removed; response_text.split("\n", 1)[1] has no
\* element 1 when the text has no line break.
StripFence(r) ==
  IF r.fence = "oneline" THEN [raises |-> "IndexError", body |-> r.body]
  ELSE [raises |-> "none", body |-> r.body]

\* isinstance(mins, (int, float)): bool is an int, NaN and Infinity are floats.
IsNumber(v) == v.t \in {"int", "float", "bool", "nan", "inf"}

\* int(mins) for a value int() accepts.
IntOf(v) == IF v.t = "float" THEN IntOfFloat(v.n, v.d) ELSE v.n

\* int(mins) raises: ValueError on NaN, OverflowError on Infinity.
IntRaises(v) ==
  CASE v.t = "nan" -> "ValueError: cannot convert float NaN to integer"
    [] v.t = "inf" -> "OverflowError"
    [] OTHER -> "none"

\* Accepted without the name check of line 97.
Accepted_AnyName(habits) == {k \in DOMAIN habits : IsNumber(habits[k])}

\* Lines 94-98: the entries that pass the filter.
Accepted(habits) == {k \in DOMAIN habits : k \in valid_names /\ IsNumber(habits[k])}

\* Lines 95-98: validated, when no int() raises.
Validate(habits) == [k \in Accepted(habits) |-> IntOf(habits[k])]

\* Lines 89-103: what one iteration can end in, given the delegate's answer:
\*   "return"  validated is returned (line 101)
\*   "next"    the loop goes on (line 103, or validated is empty)
\*   "raise"   an exception leaves parse_habit_reply
\* Which int() raises first when several do depends on the key order of the
\* answer, which the mapping does not keep: every one is an outcome.
AttemptOutcomes(r) ==
  LET s == StripFence(r)
      b == s.body
      habits == b.map
      raising == {IntRaises(habits[k]) : k \in Accepted(habits)} \ {"none"}
  IN  IF s.raises # "none"
        THEN {[kind |-> "raise", exc |-> s.raises, validated |-> EmptyMap]}
      ELSE IF b.j = "text"              \* json.JSONDecodeError
        THEN {[kind |-> "next", exc |-> "none", validated |-> EmptyMap]}
      ELSE IF b.j = "nonobject" \/ b.habits = "other"   \* AttributeError
        THEN {[kind |-> "next", exc |-> "none", validated |-> EmptyMap]}
      ELSE IF raising # {}
        THEN {[kind |-> "raise", exc |-> e, validated |-> EmptyMap] : e \in raising}
      ELSE IF Validate(habits) # EmptyMap
        THEN {[kind |-> "return", exc |-> "none", validated |-> Validate(habits)]}
      ELSE {[kind |-> "next", exc |-> "none", validated |-> EmptyMap]}
(***************************************************************************)
(* The worksheet.  A cell is the text row_values / col_values shows for it *)
(*   "empty"  ""                                                           *)
(*   "int"    str(n), a number cell                                        *)
(*   "str"    the text s ("SICK", "Date", a day name)                      *)
(*   "pct"    f"{x:.2f}%" where x = n / 100                                *)
(*   "date"   format_date_for_sheet of the date n ("24-Jan-2026")          *)
(* A row is its cells in columns 1..PERCENTAGE_COLUMN (gspread counts from *)
(* 1), the sheet the sequence of its rows.                                 *)
(***************************************************************************)
EmptyCell == [k |-> "empty", n |-> 0, s |-> ""]
IntCell(n) == [k |-> "int", n |-> n, s |-> ""]
StrCell(s) == [k |-> "str", n |-> 0, s |-> s]
PctCell(h) == [k |-> "pct", n |-> h, s |-> "%"]

Columns == 1..PERCENTAGE_COLUMN
\* The calendar dates the sheet may hold a row for.
Dates == {1, 2}

\* shared/date_utils.py
format_date_for_sheet(date) == [k |-> "date", n |-> date, s |-> ""]
get_day_name(date) == StrCell("day")

\* worksheet.row_values(row_num): the cells up to the last non-empty one, as
\* a Python list (index 0 is column 1). Its length:
RowLen(row) ==
  IF \A c \in Columns : row[c] = EmptyCell THEN 0
  ELSE CHOOSE c \in Columns : row[c] # EmptyCell /\ \A c2 \in Columns : c2 > c => row[c2] = EmptyCell

\* row_values[i] for i < len(row_values)
row_value(row, i) == row[i + 1]

\* int(text): the number of a numeric text, ValueError otherwise.
IntParses(cell) == cell.k = "int"

\* float(text.replace("%", "")), in hundredths; ValueError on other text.
FloatParses(cell) == cell.k \in {"int", "pct"}
FloatOf(cell) == IF cell.k = "int" THEN cell.n * 100 ELSE cell.n

\* (total_minutes / DAILY_TARGET_MINUTES) * 100 to two decimals, in
\* hundredths of a percent.  215 = 5 * 43 and t * 10000 / 215 is never
\* halfway between two hundredths, so rounding to nearest is exact.
Hundredths(total_minutes) == (total_minutes * 20000 + DAILY_TARGET_MINUTES) \div (2 * DAILY_TARGET_MINUTES)

\* sheets_client.py line 119: f"{percentage:.2f}%"
FormatPercentage(total_minutes) == PctCell(Hundredths(total_minutes))

\* RoundPercentage clamped at 100 percent.
RoundPercentage_Clamped(total_minutes) ==
  IF Hundredths(total_minutes) > 10000 THEN 10000 ELSE Hundredths(total_minutes)

\* sheets_client.py line 127: round(percentage, 2)
RoundPercentage(total_minutes) == Hundredths(total_minutes)

\* find_row_by_date falling back to the last row of the worksheet when no
\* row carries the date.
find_row_by_date_LastRow(worksheet, date) ==
  LET hits == {i \in DOMAIN worksheet : worksheet[i][DATE_COLUMN] = format_date_for_sheet(date)}
  IN  IF hits = {} THEN Len(worksheet) ELSE CHOOSE i \in hits : \A j \in hits : i <= j

\* sheets_client.py lines 59-76; 0 stands for None.
find_row_by_date(worksheet, date) ==
  LET hits == {i \in DOMAIN worksheet : worksheet[i][DATE_COLUMN] = format_date_for_sheet(date)}
  IN  IF hits = {} THEN 0 ELSE CHOOSE i \in hits : \A j \in hits : i <= j

\* sheets_client.py lines 101-106: the cell written for one habit,
\* gspread.Cell(row_num, col_index, value if value else "").
HabitCell(habit_data, name) ==
  IF name \in DOMAIN habit_data /\ habit_data[name] # 0
    THEN IntCell(habit_data[name])
    ELSE EmptyCell

\* The habit whose cell is in gspread column c, or 0.
HabitAtColumn(c) ==
  IF \E i \in DOMAIN HABITS : HABITS[i].column_index + 1 = c
    THEN CHOOSE i \in DOMAIN HABITS : HABITS[i].column_index + 1 = c
    ELSE 0

\* TotalMinutes summing the default durations of the logged habits instead
\* of the minutes logged.
TotalMinutes_FromTargets(habit_data) ==
  SumValues([k \in DOMAIN habit_data \cap valid_names |-> get_habit_by_name(k).target_mins])

\* sheets_client.py lines 108-109
TotalMinutes(habit_data) == SumValues(habit_data)

\* UpdatedRow leaving the cell of a habit absent from the mapping as it was.
UpdatedRow_Merging(row, habit_data) ==
  [c \in Columns |->
     IF HabitAtColumn(c) # 0
       THEN IF HABITS[HabitAtColumn(c)].name \in DOMAIN habit_data
              THEN HabitCell(habit_data, HABITS[HabitAtColumn(c)].name)
              ELSE row[c]
     ELSE IF c = TOTAL_COLUMN THEN IntCell(TotalMinutes(habit_data))
     ELSE IF c = PERCENTAGE_COLUMN THEN FormatPercentage(TotalMinutes(habit_data))
     ELSE row[c]]

\* sheets_client.py lines 98-123: the row after worksheet.update_cells.
UpdatedRow(row, habit_data) ==
  [c \in Columns |->
     IF HabitAtColumn(c) # 0 THEN HabitCell(habit_data, HABITS[HabitAtColumn(c)].name)
     ELSE IF c = TOTAL_COLUMN THEN IntCell(TotalMinutes(habit_data))
     ELSE IF c = PERCENTAGE_COLUMN THEN FormatPercentage(TotalMinutes(habit_data))
     ELSE row[c]]

\* sheets_client.py lines 79-129, when the worksheet calls succeed.
update_habit_row(worksheet, date, habit_data) ==
  LET row_num == find_row_by_date(worksheet, date)
  IN  IF row_num = 0
        THEN [raises |-> "ValueError", error |-> "Row not found", date |-> date,
              worksheet |-> worksheet,
              total_minutes |-> 0, percentage |-> 0, row_number |-> 0]
        ELSE [raises |-> "none", error |-> "", date |-> date,
              worksheet |-> [worksheet EXCEPT ![row_num] = UpdatedRow(@, habit_data)],
              total_minutes |-> TotalMinutes(habit_data),
              percentage |-> RoundPercentage(TotalMinutes(habit_data)),
              row_number |-> row_num]

\* sheets_client.py lines 151-159: the habits read from a row; a cell that
\* int() rejects is kept as its text.
ReadHabits(row) ==
  LET present == {i \in DOMAIN HABITS :
                    /\ HABITS[i].column_index < RowLen(row)
                    /\ row_value(row, HABITS[i].column_index) # EmptyCell}
  IN  [name \in {HABITS[i].name : i \in present} |-> row_value(row, get_habit_by_name(name).column_index)]

\* sheets_client.py lines 132-161; isnone stands for the result None.
get_today_data(worksheet, date) ==
  LET row_num == find_row_by_date(worksheet, date)
  IN  IF row_num = 0 THEN [isnone |-> TRUE, data |-> EmptyMap]
      ELSE IF RowLen(worksheet[row_num]) < PERCENTAGE_COLUMN THEN [isnone |-> TRUE, data |-> EmptyMap]
      ELSE IF ReadHabits(worksheet[row_num]) = EmptyMap THEN [isnone |-> TRUE, data |-> EmptyMap]
      ELSE [isnone |-> FALSE, data |-> ReadHabits(worksheet[row_num])]

SpecialEntries == {"SICK", "HOLIDAY", "PONGAL", "Diwali Break"}

\* sheets_client.py lines 176-223: the entry of one date in get_week_data.
WeekEntry(worksheet, date) ==
  LET row_num == find_row_by_date(worksheet, date)
      row == worksheet[row_num]
      len == RowLen(row)
      read == ReadHabits(row)
      ints == {name \in DOMAIN read : IntParses(read[name])}
      tcell == row_value(row, TOTAL_COLUMN - 1)
      pcell == row_value(row, PERCENTAGE_COLUMN - 1)
      blank == [date |-> format_date_for_sheet(date), day |-> get_day_name(date),
                habits |-> EmptyMap, total |-> 0, percentage |-> 0,
                is_off_day |-> FALSE, note |-> ""]
  IN  IF row_num = 0 THEN [blank EXCEPT !.is_off_day = TRUE]
      ELSE IF len > 2 /\ row_value(row, 2).k = "str" /\ row_value(row, 2).s \in SpecialEntries
        THEN [blank EXCEPT !.is_off_day = TRUE, !.note = row_value(row, 2).s]
      ELSE [blank EXCEPT
              !.habits = [name \in ints |-> read[name].n],
              !.total = IF TOTAL_COLUMN - 1 < len /\ tcell # EmptyCell /\ IntParses(tcell)
                          THEN tcell.n ELSE 0,
              !.percentage = IF PERCENTAGE_COLUMN - 1 < len /\ pcell # EmptyCell /\ FloatParses(pcell)
                               THEN FloatOf(pcell) ELSE 0]

\* sheets_client.py lines 164-225
get_week_data(worksheet, dates) == [i \in DOMAIN dates |-> WeekEntry(worksheet, dates[i])]
(***************************************************************************)
(* Exceptions, by the text that identifies them                            *)
(***************************************************************************)
\* gemini_client.py line 105
CouldNotParse == "ValueError: Could not parse habit reply"
\* sheets_client.py lines 93-96
RowNotFound == "Row not found"
\* sheets_client.py line 38: json.loads of malformed credentials
\* (json.JSONDecodeError is a ValueError).
CredentialsError == "JSONDecodeError"
\* gspread / google-api failures of a worksheet call or of the delegate.
APIError == "APIError"
DelegateError == "DelegateError"

\* isinstance(e, ValueError)
IsValueError(e) ==
  e \in {CouldNotParse, "ValueError: cannot convert float NaN to integer",
         RowNotFound, CredentialsError}

(***************************************************************************)
(* Reply texts, as the parts their f-strings interpolate                   *)
(***************************************************************************)
BlankText ==
  [kind |-> "none", date |-> 0, habits |-> << >>, total |-> 0, percentage |-> 0,
   has_not_logged |-> FALSE, not_logged |-> << >>, parsed |-> {}, error |-> ""]

\* shared/date_utils.py get_short_day_date: "Friday, 24-Jan"
get_short_day_date(date) == date

\* main.py lines 28-37
HELP_MESSAGE == [BlankText EXCEPT !.kind = "help"]

\* main.py lines 136-140
RephraseMessage == [BlankText EXCEPT !.kind = "rephrase"]

\* main.py lines 143-146
NoHabitsMessage == [BlankText EXCEPT !.kind = "no_habits"]

\* main.py line 153: f"Could not update sheet: {str(e)}"; the text of the
\* row-not-found error names the date (sheets_client.py line 94).
CouldNotUpdateMessage(e, date) ==
  [BlankText EXCEPT !.kind = "could_not_update", !.error = e,
                    !.date = IF e = RowNotFound THEN date ELSE 0]

\* ParsedButFailedMessage without the parsed summary.
ParsedButFailedMessage_NoSummary(habit_data, e) ==
  [BlankText EXCEPT !.kind = "parsed_but_failed", !.error = e]

\* main.py lines 156-160
ParsedButFailedMessage(habit_data, e) ==
  [BlankText EXCEPT !.kind = "parsed_but_failed",
                    !.parsed = {<< k, habit_data[k] >> : k \in DOMAIN habit_data},
                    !.error = e]

\* The (name, value) pairs of a mapping, by name: sorted(d.items()).
SortedItems(d) == [i \in 1..Cardinality(DOMAIN d) |-> << sorted(DOMAIN d)[i], d[sorted(DOMAIN d)[i]] >>]

\* whatsapp_client.py lines 170-197
format_confirmation_message(habit_data, total_minutes, percentage, date_str) ==
  LET all_habits == {get_all_habit_names[i] : i \in DOMAIN get_all_habit_names}
      done_habits == DOMAIN habit_data
      missed == all_habits \ done_habits
  IN  [BlankText EXCEPT !.kind = "confirmation", !.date = date_str,
                        !.habits = SortedItems(habit_data),
                        !.total = total_minutes, !.percentage = percentage,
                        !.has_not_logged = (missed # {}),
                        !.not_logged = sorted(missed)]

\* main.py lines 172-177
handle_skip(today_ist) == [BlankText EXCEPT !.kind = "rest_day", !.date = get_short_day_date(today_ist)]

\* main.py lines 180-200, given what get_today_data returned.
handle_status(today_ist, got) ==
  IF got.isnone
    THEN [BlankText EXCEPT !.kind = "status_none", !.date = get_short_day_date(today_ist)]
    ELSE LET data == got.data
             ints == {k \in DOMAIN data : IntParses(data[k])}
             logged == [k \in ints |-> data[k].n]
         IN  [BlankText EXCEPT !.kind = "status", !.date = get_short_day_date(today_ist),
                               !.habits = SortedItems(logged),
                               !.total = SumValues(logged),
                               !.percentage = Hundredths(SumValues(logged))]

(***************************************************************************)
(* Inbound messages                                                        *)
(***************************************************************************)
Messages ==
  {"skip", " OFF ", "Rest", "leave", "status", "Today", "help", " ? ",
   "walked 45, sandhi both, cooked, utensils, clothes, read 20", "skip today"}

\* lower_strip that leaves the text as it came.
lower_strip_AsIs(message_text) == message_text

\* message_text.lower().strip()
lower_strip(message_text) ==
  CASE message_text = " OFF " -> "off"
    [] message_text = "OFF" -> "off"
    [] message_text = "Rest" -> "rest"
    [] message_text = "Today" -> "today"
    [] message_text = " ? " -> "?"
    [] OTHER -> message_text

\* range(2) of parse_habit_reply's loop
MaxAttempts == 2

(***************************************************************************)
(* config.py and shared/whatsapp_client.py: the webhook                    *)
(***************************************************************************)
WHATSAPP_VERIFY_TOKEN == "verify-token"
META_APP_SECRET == "app-secret"
USER_PHONE_NUMBER == "919000000001"

\* A value that may be missing (dict.get): << >> is None, << v >> is v.
None == << >>
Some(v) == << v >>

\* Python's truth of an optional string: None and "" are false.
Truthy(x) == x # None /\ x # Some("")

\* verify_webhook that does not look at the mode.
verify_webhook_AnyMode(request_args) ==
  IF request_args.verify_token = Some(WHATSAPP_VERIFY_TOKEN)
    THEN request_args.challenge
    ELSE None

\* whatsapp_client.py lines 98-113
verify_webhook(request_args) ==
  LET mode == request_args.mode
      token == request_args.verify_token
      challenge == request_args.challenge
  IN  IF mode = Some("subscribe") /\ token = Some(WHATSAPP_VERIFY_TOKEN)
        THEN challenge
        ELSE None

\* The query parameters of a GET.
GetArgs ==
  [mode : {None, Some("subscribe"), Some("unsubscribe")},
   verify_token : {None, Some(WHATSAPP_VERIFY_TOKEN), Some("guess")},
   challenge : {None, Some(""), Some("1158201444")}]

\* hmac.new(key, msg, hashlib.sha256).hexdigest(): distinct keys or bodies
\* give distinct digests.
HmacHex(key, msg) == [part |-> "hex", key |-> key, msg |-> msg]

\* The text "sha256=" as a part of a signature header; a header is the
\* sequence of its parts, the empty sequence the empty (or absent) header.
Sha256Prefix == [part |-> "sha256=", key |-> "", msg |-> ""]

\* str.replace("sha256=", ""): every occurrence goes.
RemovePrefix(signature_header) == SelectSeq(signature_header, LAMBDA x : x # Sha256Prefix)

\* whatsapp_client.py lines 116-136
validate_webhook_signature(request_body, signature_header) ==
  IF signature_header = << >>
    THEN FALSE
    ELSE LET expected_signature == HmacHex(META_APP_SECRET, request_body)
             received_signature == RemovePrefix(signature_header)
         IN  received_signature = << expected_signature >>

\* Webhook payloads: a text message, a message of another type, a status
\* update without messages, an empty body.
TextPayload(from, text) == [kind |-> "text", from |-> from, text |-> text]
ImagePayload == [kind |-> "image", from |-> USER_PHONE_NUMBER, text |-> ""]
StatusPayload == [kind |-> "statuses", from |-> "", text |-> ""]
EmptyPayload == [kind |-> "empty", from |-> "", text |-> ""]

Payloads ==
  {TextPayload(USER_PHONE_NUMBER, m) : m \in Messages}
    \cup {TextPayload("919000000002", "skip"),
          TextPayload("919000000002", "walked 45, sandhi both, cooked, utensils, clothes, read 20"),
          ImagePayload, StatusPayload, EmptyPayload}

\* The payload a signature was made for when the body was altered after
\* signing.
OriginalOf(body) ==
  IF body = TextPayload(USER_PHONE_NUMBER, "skip") THEN StatusPayload
  ELSE TextPayload(USER_PHONE_NUMBER, "skip")

\* The X-Hub-Signature-256 headers a body comes with: none, the sender's
\* signature with and without the prefix, the prefix twice, the signature
\* of the body before it was altered, a signature under another secret.
SignatureHeaders(body) ==
  {<< >>,
   << Sha256Prefix, HmacHex(META_APP_SECRET, body) >>,
   << HmacHex(META_APP_SECRET, body) >>,
   << Sha256Prefix, Sha256Prefix, HmacHex(META_APP_SECRET, body) >>,
   << Sha256Prefix, HmacHex(META_APP_SECRET, OriginalOf(body)) >>,
   << Sha256Prefix, HmacHex("guess", body) >>}

\* whatsapp_client.py lines 139-167: None unless a text message.
extract_message_from_webhook(webhook_body) ==
  IF webhook_body.kind = "text"
    THEN Some([from_number |-> webhook_body.from, message_text |-> webhook_body.text])
    ELSE None

\* str.strip()
strip(text) ==
  CASE text = " OFF " -> "OFF"
    [] text = " ? " -> "?"
    [] OTHER -> text

\* main.py lines 100-103
ErrorMessage == [BlankText EXCEPT !.kind = "something_went_wrong"]

\* requests.HTTPError of send_text_message
SendError == "HTTPError"

\* What the handler answers: a status and a text.
Reply(status, text) == [status |-> status, text |-> text]
NoReply == Reply(0, None)

\* An exception left the handler: the functions framework answers 500.
Unhandled(e) == Reply(500, Some(e))

NoArgs == [mode |-> None, verify_token |-> None, challenge |-> None]
Get(args) == [method |-> "GET", args |-> args, signature |-> << >>, body |-> EmptyPayload]
Post(signature, body) == [method |-> "POST", args |-> NoArgs, signature |-> signature, body |-> body]
Other(method) == [method |-> method, args |-> NoArgs, signature |-> << >>, body |-> EmptyPayload]
NoRequest == Other("none")
(***************************************************************************)
(* The weekly report: shared/gemini_client.py                              *)
(* generate_weekly_recommendations, shared/whatsapp_client.py              *)
(* format_weekly_report, functions/send_weekly_report/main.py              *)
(***************************************************************************)
\* date_utils.py lines 51-54: the past n dates, oldest first, today last.
get_past_n_days(today_ist, n) == [i \in 1..n |-> today_ist - (n - i)]

\* [d for d in week_data if not d["is_off_day"] and d["habits"]]
ActiveDays(week_data) ==
  SelectSeq(week_data, LAMBDA d : ~ d.is_off_day /\ DOMAIN d.habits # {})

\* The keys of day["habits"] in the order get_week_data inserted them: the
\* order of HABITS (sheets_client.py line 201).
DayKeys(day) == SelectSeq(get_all_habit_names, LAMBDA n : n \in DOMAIN day.habits)

\* The keys of habit_counts in insertion order: each habit where the loop
\* over the active days and their habits first meets it.
RECURSIVE CountKeys(_)
CountKeys(active_days) ==
  IF active_days = << >> THEN << >>
  ELSE LET before == CountKeys(SubSeq(active_days, 1, Len(active_days) - 1))
           seen == {before[i] : i \in DOMAIN before}
       IN  before \o SelectSeq(DayKeys(active_days[Len(active_days)]), LAMBDA n : n \notin seen)

\* habit_counts: for each habit met, the active days that have it.
habit_counts(active_days) ==
  [name \in {CountKeys(active_days)[i] : i \in DOMAIN CountKeys(active_days)} |->
     Cardinality({i \in DOMAIN active_days : name \in DOMAIN active_days[i].habits})]

\* max(habit_counts, key=habit_counts.get): the first key, in insertion
\* order, with the highest count.
MaxKey(keys, counts) ==
  keys[CHOOSE i \in DOMAIN keys :
         /\ \A j \in DOMAIN keys : counts[keys[j]] <= counts[keys[i]]
         /\ \A j \in 1..(i - 1) : counts[keys[j]] < counts[keys[i]]]

\* min(habit_counts, key=habit_counts.get): the first key with the lowest
\* count.
MinKey(keys, counts) ==
  keys[CHOOSE i \in DOMAIN keys :
         /\ \A j \in DOMAIN keys : counts[keys[j]] >= counts[keys[i]]
         /\ \A j \in 1..(i - 1) : counts[keys[j]] > counts[keys[i]]]

\* max / min(active_days, key=lambda d: d["percentage"]): the first day
\* with the highest / lowest percentage.
BestDay(active_days) ==
  active_days[CHOOSE i \in DOMAIN active_days :
                /\ \A j \in DOMAIN active_days :
                     active_days[j].percentage <= active_days[i].percentage
                /\ \A j \in 1..(i - 1) : active_days[j].percentage < active_days[i].percentage]

WorstDay(active_days) ==
  active_days[CHOOSE i \in DOMAIN active_days :
                /\ \A j \in DOMAIN active_days :
                     active_days[j].percentage >= active_days[i].percentage
                /\ \A j \in 1..(i - 1) : active_days[j].percentage > active_days[i].percentage]

\* list[:3]
FirstThree(list) == SubSeq(list, 1, IF Len(list) < 3 THEN Len(list) ELSE 3)

\* The parts a weekly report interpolates. The average is kept as the sum
\* of the percentages (in hundredths) over the number of active days.
BlankReport ==
  [kind |-> "none", start_date |-> 0, end_date |-> 0, active_days |-> 0, pct_sum |-> 0,
   total_mins |-> 0, best_day |-> EmptyCell, best_pct |-> 0, most_consistent |-> "",
   most_consistent_count |-> 0, has_needs_work |-> FALSE, needs_work |-> << >>,
   recommendations |-> ""]

\* whatsapp_client.py line 213
NoHabitsLoggedMessage == [BlankReport EXCEPT !.kind = "no_habits_logged_this_week"]

\* format_weekly_report appending the recommendations to the fixed message
\* of a week without active days.
format_weekly_report_WithRecommendations(week_data, recommendations) ==
  [NoHabitsLoggedMessage EXCEPT !.recommendations = recommendations]

\* whatsapp_client.py lines 200-246
format_weekly_report(week_data, recommendations) ==
  LET active_days == ActiveDays(week_data)
      counts == habit_counts(active_days)
      keys == CountKeys(active_days)
      most_consistent == MaxKey(keys, counts)
      most_missed_habits == SelectSeq(keys, LAMBDA name : counts[name] <= 1)
  IN  IF active_days = << >>
        THEN NoHabitsLoggedMessage
        ELSE [kind |-> "weekly_report",
              start_date |-> week_data[1].date.n,
              end_date |-> week_data[Len(week_data)].date.n,
              active_days |-> Len(active_days),
              pct_sum |-> SumValues([i \in DOMAIN active_days |-> active_days[i].percentage]),
              total_mins |-> SumValues([i \in DOMAIN active_days |-> active_days[i].total]),
              best_day |-> BestDay(active_days).day,
              best_pct |-> BestDay(active_days).percentage,
              most_consistent |-> most_consistent,
              most_consistent_count |-> counts[most_consistent],
              has_needs_work |-> most_missed_habits # << >>,
              needs_work |-> FirstThree(most_missed_habits),
              recommendations |-> recommendations]

\* gemini_client.py lines 134-159: the statistics of the prompt.
BlankStats ==
  [kind |-> "none", active_days |-> 0, pct_sum |-> 0, best_pct |-> 0, worst_pct |-> 0,
   most_consistent |-> "", most_consistent_count |-> 0, least_done |-> "",
   least_done_count |-> 0]

WeekStats(week_data) ==
  LET active_days == ActiveDays(week_data)
      counts == habit_counts(active_days)
      keys == CountKeys(active_days)
  IN  IF active_days = << >>
        THEN [BlankStats EXCEPT !.kind = "no_active_days_this_week"]
        ELSE [kind |-> "week_stats",
              active_days |-> Len(active_days),
              pct_sum |-> SumValues([i \in DOMAIN active_days |-> active_days[i].percentage]),
              best_pct |-> BestDay(active_days).percentage,
              worst_pct |-> WorstDay(active_days).percentage,
              most_consistent |-> MaxKey(keys, counts),
              most_consistent_count |-> counts[MaxKey(keys, counts)],
              least_done |-> MinKey(keys, counts),
              least_done_count |-> counts[MinKey(keys, counts)]]

\* gemini_client.py lines 118-132: one summary line per day.
SummaryLine(day) ==
  IF day.is_off_day
    THEN [kind |-> "off", note |-> IF day.note = "" THEN "No data" ELSE day.note,
          habits |-> EmptyMap]
    ELSE IF DOMAIN day.habits # {}
      THEN [kind |-> "logged", note |-> "", habits |-> day.habits]
      ELSE [kind |-> "no_habits_logged", note |-> "", habits |-> EmptyMap]

\* gemini_client.py line 161: the prompt given to the delegate.
WeeklyPrompt(week_data) ==
  [summary_lines |-> [i \in DOMAIN week_data |-> SummaryLine(week_data[i])],
   stats |-> WeekStats(week_data),
   daily_target |-> DAILY_TARGET_MINUTES]

NoPrompt == [summary_lines |-> << >>, stats |-> BlankStats, daily_target |-> 0]

\* send_weekly_report/main.py lines 38-42
StaticRecommendations == "1. Keep up ... 2. Try to add ... 3. Don't break the streak ..."

\* What the delegate may answer (response.text.strip()).
DelegateRecommendations == {"1. ... 2. ... 3. ...", ""}

(***************************************************************************)
(* State                                                                   *)
(***************************************************************************)
VARIABLES
  sheet,          \* the worksheet: a sequence of rows
  today,          \* get_today_ist()
  msgCount,       \* inbound messages received so far
  pc,             \* where the invocation is: "idle", "parse", "update",
                  \* "returned" (process_user_message returned response_text),
                  \* "raised" (an exception left process_user_message)
  message_text,   \* the message being processed
  sheet0,         \* the worksheet when the message arrived
  delegate_calls, \* the inputs of the generate_content calls of this message
  attempts,       \* how each iteration of parse_habit_reply's loop ended
  response,       \* the delegate's answer in the iteration that ended
                  \* parse_habit_reply
  parse_status,   \* parse_habit_reply: "none", "running", "returned", "raised"
  parse_exc,      \* the exception parse_habit_reply raised
  habit_data,     \* the mapping parse_habit_reply returned
  result,         \* what update_habit_row returned
  update_exc,     \* the exception update_habit_row raised
  response_text,  \* what process_user_message returned
  exc,            \* the exception that left process_user_message
  writes,         \* worksheet.update_cells calls of this message
  reads,          \* worksheet read calls of this message
  request,        \* the HTTP request handle_whatsapp_reply is serving
  payload,        \* what request.get_json returned, None before the call
  sends,          \* the send_text_message calls of this request
  http,           \* what the HTTP handler answered
  week_data,      \* send_weekly_report: what get_week_data returned
  prompt,         \* the prompt generate_weekly_recommendations gave the delegate
  recommend_exc,  \* the exception generate_weekly_recommendations raised
  recommendations,\* the recommendations of the report
  report_message, \* what format_weekly_report returned
  writers,        \* concurrent invocations of update_habit_row: position, mapping, row found
  applied,        \* the invocations whose update_cells request was applied, in order
  last_log        \* history: the last successful update_habit_row of the handler

vars == << sheet, today, msgCount, pc, message_text, sheet0, delegate_calls, attempts, response,
           parse_status, parse_exc, habit_data, result, update_exc, response_text, exc, writes,
           reads, request, payload, sends, http, week_data, prompt, recommend_exc,
           recommendations, report_message, writers, applied, last_log >>

\* The locals of send_weekly_report.
wvars == << week_data, prompt, recommend_exc, recommendations, report_message >>

\* The state of concurrent invocations of update_habit_row.
cvars == << writers, applied >>

\* The state of the HTTP handler around process_user_message.
hvars == << request, payload, sends, http >>

\* No update_habit_row of the handler has succeeded yet.
NoLog == [set |-> FALSE, date |-> 0, habit_data |-> EmptyMap, total_minutes |-> 0]

\* No invocation of update_habit_row runs beside the handler.
NoWriters == << >>

NoMessage == ""
NoResult == [set |-> FALSE, total_minutes |-> 0, percentage |-> 0, row_number |-> 0]

(***************************************************************************)
(* The worksheets a behaviour starts from: DATA_START_ROW - 1 header rows, *)
(* then one row per date of some set of dates, in date order. The row of   *)
(* today is blank or carries a day-level note, the other rows carry an     *)
(* earlier log.                                                            *)
(***************************************************************************)
HeaderRow(i) ==
  [c \in Columns |-> IF c = DATE_COLUMN /\ i = 1 THEN StrCell("Date") ELSE EmptyCell]

BlankRow(date) ==
  [c \in Columns |->
     IF c = DATE_COLUMN THEN format_date_for_sheet(date)
     ELSE IF c = DAY_COLUMN THEN get_day_name(date)
     ELSE EmptyCell]

EarlierLog == [k \in {"Walking/Running", "Daily Brief"} |-> IF k = "Daily Brief" THEN 20 ELSE 45]

LoggedRow(date) == UpdatedRow(BlankRow(date), EarlierLog)

SickRow(date) == [BlankRow(date) EXCEPT ![3] = StrCell("SICK")]

RECURSIVE RowsOf(_, _)
RowsOf(S, rowOfToday) ==
  IF S = {} THEN << >>
  ELSE LET d == CHOOSE x \in S : \A y \in S : x <= y
       IN  << IF d = rowOfToday.date THEN rowOfToday.row ELSE LoggedRow(d) >>
             \o RowsOf(S \ {d}, rowOfToday)

InitSheets(t) ==
  {[i \in 1..(DATA_START_ROW - 1) |-> HeaderRow(i)] \o RowsOf(S, [date |-> t, row |-> r]) :
     S \in SUBSET Dates, r \in {BlankRow(t), SickRow(t)}}

Init ==
  /\ today \in Dates
  /\ sheet \in InitSheets(today)
  /\ sheet0 = sheet
  /\ msgCount = 0
  /\ pc = "idle"
  /\ message_text = NoMessage
  /\ delegate_calls = << >>
  /\ attempts = << >>
  /\ response = NoResponse
  /\ parse_status = "none"
  /\ parse_exc = "none"
  /\ habit_data = EmptyMap
  /\ result = NoResult
  /\ update_exc = "none"
  /\ response_text = BlankText
  /\ exc = "none"
  /\ writes = 0
  /\ reads = 0
  /\ request = NoRequest
  /\ payload = None
  /\ sends = << >>
  /\ http = NoReply
  /\ week_data = << >>
  /\ prompt = NoPrompt
  /\ recommend_exc = "none"
  /\ recommendations = ""
  /\ report_message = BlankReport
  /\ writers = NoWriters
  /\ applied = << >>
  /\ last_log = NoLog

(***************************************************************************)
(* functions/handle_whatsapp_reply/main.py: process_user_message           *)
(***************************************************************************)
\* A message arrives: the invocation starts with fresh locals.
Arrives(m) ==
  /\ pc = "idle"
  /\ msgCount < MaxMessages
  /\ msgCount' = msgCount + 1
  /\ message_text' = m
  /\ sheet0' = sheet
  /\ delegate_calls' = << >>
  /\ attempts' = << >>
  /\ response' = NoResponse
  /\ parse_exc' = "none"
  /\ habit_data' = EmptyMap
  /\ result' = NoResult
  /\ update_exc' = "none"
  /\ writes' = 0
  /\ UNCHANGED << sheet, today >>

\* Lines 123-124: skip / off / rest / leave.
HandleSkipStep(m) ==
  /\ lower_strip(m) \in {"skip", "off", "rest", "leave"}
  /\ response_text' = handle_skip(today)
  /\ pc' = "returned"
  /\ parse_status' = "none"
  /\ exc' = "none"
  /\ reads' = 0

HandleSkip == \E m \in Messages : Arrives(m) /\ HandleSkipStep(m) /\ UNCHANGED << hvars, wvars, cvars, last_log >>

\* Lines 126-127 and 180-200: status / today; get_today_data reads the sheet.
HandleStatusStep(m) ==
  /\ lower_strip(m) \in {"status", "today"}
  /\ response_text' = handle_status(today, get_today_data(sheet, today))
  /\ pc' = "returned"
  /\ parse_status' = "none"
  /\ exc' = "none"
  /\ reads' = 1

HandleStatus == \E m \in Messages : Arrives(m) /\ HandleStatusStep(m) /\ UNCHANGED << hvars, wvars, cvars, last_log >>

\* The same, when a worksheet call of get_today_data fails: the exception
\* leaves process_user_message.
HandleStatusFailsStep(m) ==
  /\ lower_strip(m) \in {"status", "today"}
  /\ response_text' = BlankText
  /\ pc' = "raised"
  /\ parse_status' = "none"
  /\ exc' = APIError
  /\ reads' = 1

HandleStatusFails == \E m \in Messages : Arrives(m) /\ HandleStatusFailsStep(m) /\ UNCHANGED << hvars, wvars, cvars, last_log >>

\* Lines 129-130: help / ?.
HandleHelpStep(m) ==
  /\ lower_strip(m) \in {"help", "?"}
  /\ response_text' = HELP_MESSAGE
  /\ pc' = "returned"
  /\ parse_status' = "none"
  /\ exc' = "none"
  /\ reads' = 0

HandleHelp == \E m \in Messages : Arrives(m) /\ HandleHelpStep(m) /\ UNCHANGED << hvars, wvars, cvars, last_log >>

\* StartParseStep going to update_habit_row without waiting for
\* parse_habit_reply.
StartParseStep_WritesFirst(m) ==
  /\ lower_strip(m) \notin {"skip", "off", "rest", "leave", "status", "today", "help", "?"}
  /\ response_text' = BlankText
  /\ pc' = "update"
  /\ parse_status' = "running"
  /\ exc' = "none"
  /\ reads' = 0

\* Lines 132-134: anything else goes to parse_habit_reply.
StartParseStep(m) ==
  /\ lower_strip(m) \notin {"skip", "off", "rest", "leave", "status", "today", "help", "?"}
  /\ response_text' = BlankText
  /\ pc' = "parse"
  /\ parse_status' = "running"
  /\ exc' = "none"
  /\ reads' = 0

StartParse == \E m \in Messages : Arrives(m) /\ StartParseStep(m) /\ UNCHANGED << hvars, wvars, cvars, last_log >>

\* gemini_client.py lines 78-105 and main.py lines 133-146: one iteration
\* of the loop, from the generate_content call to the next call or to what
\* process_user_message does with the outcome of parse_habit_reply.
GenerateContent ==
  /\ pc = "parse"
  /\ \E r \in DelegateOutputs : \E o \in AttemptOutcomes(r) :
       /\ delegate_calls' = Append(delegate_calls, message_text)
       /\ attempts' = Append(attempts, o.kind)
       /\ response' = IF o.kind = "next" /\ Len(delegate_calls) + 1 < MaxAttempts
                        THEN NoResponse ELSE r
       /\ CASE o.kind = "return" ->
                 /\ parse_status' = "returned"
                 /\ parse_exc' = "none"
                 /\ habit_data' = o.validated
                 /\ exc' = "none"
                 /\ IF o.validated = EmptyMap      \* main.py line 142
                      THEN pc' = "returned" /\ response_text' = NoHabitsMessage
                      ELSE pc' = "update" /\ response_text' = BlankText
            [] o.kind = "next" /\ Len(delegate_calls) + 1 < MaxAttempts ->
                 /\ UNCHANGED << parse_status, parse_exc, habit_data, exc, pc, response_text >>
            [] o.kind = "next" /\ Len(delegate_calls) + 1 >= MaxAttempts ->
                 /\ parse_status' = "raised"
                 /\ parse_exc' = CouldNotParse
                 /\ pc' = "returned"
                 /\ response_text' = RephraseMessage
                 /\ UNCHANGED << habit_data, exc >>
            [] o.kind = "raise" ->
                 /\ parse_status' = "raised"
                 /\ parse_exc' = o.exc
                 /\ UNCHANGED habit_data
                 /\ IF IsValueError(o.exc)          \* main.py line 135
                      THEN pc' = "returned" /\ response_text' = RephraseMessage /\ exc' = "none"
                      ELSE pc' = "raised" /\ response_text' = BlankText /\ exc' = o.exc
  /\ UNCHANGED << sheet, today, msgCount, message_text, sheet0, result, update_exc, writes, reads >>
  /\ UNCHANGED << hvars, wvars, cvars, last_log >>

\* generate_content itself fails: the exception leaves parse_habit_reply
\* and process_user_message.
GenerateContentFails ==
  /\ pc = "parse"
  /\ delegate_calls' = Append(delegate_calls, message_text)
  /\ attempts' = Append(attempts, "failed")
  /\ response' = NoResponse
  /\ parse_status' = "raised"
  /\ parse_exc' = DelegateError
  /\ pc' = "raised"
  /\ exc' = DelegateError
  /\ UNCHANGED << sheet, today, msgCount, message_text, sheet0, habit_data, result,
                  update_exc, response_text, writes, reads >>
  /\ UNCHANGED << hvars, wvars, cvars, last_log >>

\* main.py lines 149-169: update_habit_row, its worksheet calls succeeding,
\* then the confirmation; a missing row is the ValueError of line 152.
UpdateHabitRow ==
  /\ pc = "update"
  /\ LET u == update_habit_row(sheet, today, habit_data)
     IN  IF u.raises # "none"
           THEN /\ response_text' = CouldNotUpdateMessage(u.error, u.date)
                /\ update_exc' = u.error
                /\ UNCHANGED << sheet, result, writes, last_log >>
           ELSE /\ sheet' = u.worksheet
                /\ last_log' = [set |-> TRUE, date |-> today, habit_data |-> habit_data,
                                total_minutes |-> u.total_minutes]
                /\ update_exc' = "none"
                /\ writes' = writes + 1
                /\ result' = [set |-> TRUE, total_minutes |-> u.total_minutes,
                              percentage |-> u.percentage, row_number |-> u.row_number]
                /\ response_text' = format_confirmation_message(
                                      habit_data, u.total_minutes, u.percentage,
                                      get_short_day_date(today))
  /\ reads' = reads + 1
  /\ pc' = "returned"
  /\ response' = NoResponse
  /\ UNCHANGED << today, msgCount, message_text, sheet0, delegate_calls, attempts, parse_status,
                  parse_exc, habit_data, exc >>
  /\ UNCHANGED << hvars, wvars, cvars >>

\* update_habit_row fails in a worksheet call (credentials, API) before
\* anything is written: main.py lines 152-160.
UpdateHabitRowFails ==
  /\ pc = "update"
  /\ \E e \in {APIError, CredentialsError} :
       /\ update_exc' = e
       /\ response_text' = IF IsValueError(e)
                             THEN CouldNotUpdateMessage(e, today)
                             ELSE ParsedButFailedMessage(habit_data, e)
  /\ pc' = "returned"
  /\ response' = NoResponse
  /\ UNCHANGED << sheet, today, msgCount, message_text, sheet0, delegate_calls, attempts,
                  parse_status, parse_exc, habit_data, result, exc, writes, reads >>
  /\ UNCHANGED << hvars, wvars, cvars, last_log >>

\* The invocation ends and its locals with it.
Finish ==
  /\ pc \in {"returned", "raised"}
  /\ pc' = "idle"
  /\ message_text' = NoMessage
  /\ sheet0' = sheet
  /\ delegate_calls' = << >>
  /\ attempts' = << >>
  /\ response' = NoResponse
  /\ parse_status' = "none"
  /\ parse_exc' = "none"
  /\ habit_data' = EmptyMap
  /\ result' = NoResult
  /\ update_exc' = "none"
  /\ response_text' = BlankText
  /\ exc' = "none"
  /\ writes' = 0
  /\ reads' = 0
  /\ UNCHANGED << sheet, today, msgCount >>
  /\ UNCHANGED << hvars, wvars, cvars, last_log >>

Next ==
  \/ HandleSkip
  \/ HandleStatus
  \/ HandleStatusFails
  \/ HandleHelp
  \/ StartParse
  \/ GenerateContent
  \/ GenerateContentFails
  \/ UpdateHabitRow
  \/ UpdateHabitRowFails
  \/ Finish

Spec == Init /\ [][Next]_vars

(***************************************************************************)
(* functions/handle_whatsapp_reply/main.py: handle_whatsapp_reply, the     *)
(* HTTP handler around process_user_message                                *)
(***************************************************************************)
\* The requests the handler is given. Every payload comes unsigned and
\* with its sender's signature; two of them come with every header of
\* SignatureHeaders.
Posts ==
  {Post(sig, body) : sig \in {<< >>}, body \in Payloads}
    \cup {Post(<< Sha256Prefix, HmacHex(META_APP_SECRET, body) >>, body) : body \in Payloads}
    \cup UNION {{Post(sig, body) : sig \in SignatureHeaders(body)} :
                 body \in {TextPayload(USER_PHONE_NUMBER, "skip"), StatusPayload}}

\* Lines 46-53: webhook verification.
HandleGet ==
  /\ pc = "idle"
  /\ \E args \in GetArgs :
       LET challenge == verify_webhook(args)
       IN  /\ request' = Get(args)
           /\ http' = IF Truthy(challenge)
                        THEN Reply(200, challenge)
                        ELSE Reply(403, Some("Verification failed"))
  /\ pc' = "done"
  /\ UNCHANGED << sheet, today, msgCount, message_text, sheet0, delegate_calls, attempts,
                  response, parse_status, parse_exc, habit_data, result, update_exc,
                  response_text, exc, writes, reads, payload, sends, wvars, cvars, last_log >>

\* Line 108: neither GET nor POST.
MethodNotAllowed ==
  /\ pc = "idle"
  /\ \E method \in {"PUT", "DELETE"} : request' = Other(method)
  /\ http' = Reply(405, Some("Method not allowed"))
  /\ pc' = "done"
  /\ UNCHANGED << sheet, today, msgCount, message_text, sheet0, delegate_calls, attempts,
                  response, parse_status, parse_exc, habit_data, result, update_exc,
                  response_text, exc, writes, reads, payload, sends, wvars, cvars, last_log >>

\* Lines 60-67: the signature does not validate.
RejectPost ==
  /\ pc = "idle"
  /\ \E req \in Posts :
       /\ ~ validate_webhook_signature(req.body, req.signature)
       /\ request' = req
  /\ http' = Reply(403, Some("Invalid signature"))
  /\ pc' = "done"
  /\ UNCHANGED << sheet, today, msgCount, message_text, sheet0, delegate_calls, attempts,
                  response, parse_status, parse_exc, habit_data, result, update_exc,
                  response_text, exc, writes, reads, payload, sends, wvars, cvars, last_log >>

\* AcknowledgePost answering the sender of the message with the help text.
AcknowledgePost_Replies ==
  /\ pc = "idle"
  /\ \E req \in Posts :
       LET body == req.body
           message_data == extract_message_from_webhook(body)
       IN  /\ validate_webhook_signature(body, req.signature)
           /\ \/ body = EmptyPayload
              \/ message_data = None
              \/ message_data # None /\ message_data[1].from_number # USER_PHONE_NUMBER
           /\ request' = req
           /\ payload' = Some(body)
           /\ sends' = Append(sends, [to |-> body.from, body |-> HELP_MESSAGE, ok |-> TRUE])
  /\ http' = Reply(200, Some("OK"))
  /\ pc' = "done"
  /\ UNCHANGED << sheet, today, msgCount, message_text, sheet0, delegate_calls, attempts,
                  response, parse_status, parse_exc, habit_data, result, update_exc,
                  response_text, exc, writes, reads, wvars, cvars, last_log >>

\* Lines 72-93: a validated POST with an empty body, without a text
\* message, or from another number is acknowledged and ignored.
AcknowledgePost ==
  /\ pc = "idle"
  /\ \E req \in Posts :
       LET body == req.body
           message_data == extract_message_from_webhook(body)
       IN  /\ validate_webhook_signature(body, req.signature)
           /\ \/ body = EmptyPayload
              \/ message_data = None
              \/ message_data # None /\ message_data[1].from_number # USER_PHONE_NUMBER
           /\ request' = req
           /\ payload' = Some(body)
  /\ http' = Reply(200, Some("OK"))
  /\ pc' = "done"
  /\ UNCHANGED << sheet, today, msgCount, message_text, sheet0, delegate_calls, attempts,
                  response, parse_status, parse_exc, habit_data, result, update_exc,
                  response_text, exc, writes, reads, sends, wvars, cvars, last_log >>

\* Lines 60-96: a validated POST with a text message of the configured
\* user; process_user_message is entered with the stripped text.
ReceiveText ==
  \E req \in Posts :
    LET body == req.body
        message_data == extract_message_from_webhook(body)
    IN  /\ validate_webhook_signature(body, req.signature)
        /\ message_data # None
        /\ message_data[1].from_number = USER_PHONE_NUMBER
        /\ request' = req
        /\ payload' = Some(body)
        /\ UNCHANGED << sends, http, wvars, cvars, last_log >>
        /\ LET m == strip(message_data[1].message_text)
           IN  /\ Arrives(m)
               /\ \/ HandleSkipStep(m)
                  \/ HandleStatusStep(m)
                  \/ HandleStatusFailsStep(m)
                  \/ HandleHelpStep(m)
                  \/ StartParseStep(m)

\* Line 97: the text process_user_message returned is sent; its locals are
\* gone. A failed send raises into the except clause of line 98.
SendReply ==
  /\ pc = "returned"
  /\ \E ok \in BOOLEAN :
       /\ sends' = Append(sends, [to |-> request.body.from, body |-> response_text, ok |-> ok])
       /\ IF ok
            THEN pc' = "done" /\ http' = Reply(200, Some("OK")) /\ exc' = "none"
            ELSE pc' = "raised" /\ http' = http /\ exc' = SendError
  /\ attempts' = << >>
  /\ response' = NoResponse
  /\ parse_status' = "none"
  /\ parse_exc' = "none"
  /\ habit_data' = EmptyMap
  /\ result' = NoResult
  /\ update_exc' = "none"
  /\ UNCHANGED << sheet, today, msgCount, message_text, sheet0, delegate_calls, response_text,
                  writes, reads, request, payload, wvars, cvars, last_log >>

\* Lines 98-106: whatever was raised under the try, the apology is sent.
\* This send is under no try: when it fails, the exception leaves the
\* handler.
SendErrorMessage ==
  /\ pc = "raised"
  /\ \E ok \in BOOLEAN :
       /\ sends' = Append(sends, [to |-> request.body.from, body |-> ErrorMessage, ok |-> ok])
       /\ http' = IF ok THEN Reply(200, Some("OK")) ELSE Unhandled(SendError)
  /\ pc' = "done"
  /\ attempts' = << >>
  /\ response' = NoResponse
  /\ parse_status' = "none"
  /\ parse_exc' = "none"
  /\ habit_data' = EmptyMap
  /\ result' = NoResult
  /\ update_exc' = "none"
  /\ UNCHANGED << sheet, today, msgCount, message_text, sheet0, delegate_calls, response_text,
                  exc, writes, reads, request, payload, wvars, cvars, last_log >>

\* The handler has answered: the invocation ends and its locals with it.
Complete ==
  /\ pc = "done"
  /\ pc' = "idle"
  /\ message_text' = NoMessage
  /\ sheet0' = sheet
  /\ delegate_calls' = << >>
  /\ attempts' = << >>
  /\ response' = NoResponse
  /\ parse_status' = "none"
  /\ parse_exc' = "none"
  /\ habit_data' = EmptyMap
  /\ result' = NoResult
  /\ update_exc' = "none"
  /\ response_text' = BlankText
  /\ exc' = "none"
  /\ writes' = 0
  /\ reads' = 0
  /\ request' = NoRequest
  /\ payload' = None
  /\ sends' = << >>
  /\ http' = NoReply
  /\ UNCHANGED << sheet, today, msgCount, wvars, cvars, last_log >>

NextWebhook ==
  \/ HandleGet
  \/ MethodNotAllowed
  \/ RejectPost
  \/ AcknowledgePost
  \/ ReceiveText
  \/ GenerateContent
  \/ GenerateContentFails
  \/ UpdateHabitRow
  \/ UpdateHabitRowFails
  \/ SendReply
  \/ SendErrorMessage
  \/ Complete

SpecWebhook == Init /\ [][NextWebhook]_vars

(***************************************************************************)
(* functions/send_weekly_report/main.py: send_weekly_report                *)
(***************************************************************************)
\* The day the weekly report runs, and the days of its week.
ReportDay == 7
WeekDates == get_past_n_days(ReportDay, 7)

\* What the rows of a week may hold.
WeekLogs ==
  {[k \in {"Yoga"} |-> 15],
   [k \in {"Walking/Running"} |-> 45],
   [k \in {"Walking/Running", "Yoga"} |-> IF k = "Yoga" THEN 15 ELSE 45],
   [k \in {"Sandhi - Morning", "Yoga", "Daily Brief", "Cook Morning", "Utensils"} |-> 10]}

\* A row filled in by hand: a remark where the minutes of Yoga go, a total
\* and a percentage.
RemarkRow(date) ==
  [BlankRow(date) EXCEPT ![get_habit_by_name("Yoga").column_index + 1] = StrCell("n/a"),
                         ![TOTAL_COLUMN] = IntCell(30),
                         ![PERCENTAGE_COLUMN] = PctCell(1395)]

\* The row of a date, if the worksheet has one: a day-level note, a blank
\* row, a row with a remark, or a logged row.
RowChoices(date) ==
  {<< >>, << SickRow(date) >>, << BlankRow(date) >>, << RemarkRow(date) >>}
    \cup {<< UpdatedRow(BlankRow(date), log) >> : log \in WeekLogs}

\* The worksheets the report runs on: no rows for the first four days of
\* the week, any of RowChoices for the last three.
WeekSheets ==
  {[i \in 1..(DATA_START_ROW - 1) |-> HeaderRow(i)] \o r5 \o r6 \o r7 :
     r5 \in RowChoices(5), r6 \in RowChoices(6), r7 \in RowChoices(7)}

InitWeekly ==
  /\ today = ReportDay
  /\ sheet \in WeekSheets
  /\ sheet0 = sheet
  /\ msgCount = 0
  /\ pc = "idle"
  /\ message_text = NoMessage
  /\ delegate_calls = << >>
  /\ attempts = << >>
  /\ response = NoResponse
  /\ parse_status = "none"
  /\ parse_exc = "none"
  /\ habit_data = EmptyMap
  /\ result = NoResult
  /\ update_exc = "none"
  /\ response_text = BlankText
  /\ exc = "none"
  /\ writes = 0
  /\ reads = 0
  /\ request = NoRequest
  /\ payload = None
  /\ sends = << >>
  /\ http = NoReply
  /\ week_data = << >>
  /\ prompt = NoPrompt
  /\ recommend_exc = "none"
  /\ recommendations = ""
  /\ report_message = BlankReport
  /\ writers = NoWriters
  /\ applied = << >>
  /\ last_log = NoLog

\* The variables send_weekly_report leaves alone.
uvars == << sheet, today, msgCount, message_text, sheet0, delegate_calls, attempts, response,
            parse_status, parse_exc, habit_data, result, update_exc, response_text, writes,
            request, payload, writers, applied, last_log >>

\* Lines 30-31: the week is read.
GetWeekData ==
  /\ pc = "idle"
  /\ week_data' = get_week_data(sheet, WeekDates)
  /\ reads' = 1
  /\ pc' = "recommend"
  /\ UNCHANGED << uvars, exc, sends, http, prompt, recommend_exc, recommendations,
                  report_message >>

\* Lines 31 and 67-69: a worksheet call of get_week_data fails.
GetWeekDataFails ==
  /\ pc = "idle"
  /\ reads' = 1
  /\ exc' = APIError
  /\ http' = Reply(500, Some(APIError))
  /\ pc' = "done"
  /\ UNCHANGED << uvars, sends, wvars >>

\* Lines 34-35 and 45: the delegate answers; the report is formatted.
GenerateRecommendations ==
  /\ pc = "recommend"
  /\ prompt' = WeeklyPrompt(week_data)
  /\ \E text \in DelegateRecommendations :
       /\ recommendations' = text
       /\ report_message' = format_weekly_report(week_data, text)
  /\ recommend_exc' = "none"
  /\ pc' = "send_template"
  /\ UNCHANGED << uvars, exc, reads, sends, http, week_data >>

\* GenerateRecommendationsFails with the failure left to the outer except
\* clause: the run answers 500 and nothing is sent.
GenerateRecommendationsFails_Surfaced ==
  /\ pc = "recommend"
  /\ prompt' = WeeklyPrompt(week_data)
  /\ recommend_exc' = DelegateError
  /\ exc' = DelegateError
  /\ http' = Reply(500, Some(DelegateError))
  /\ pc' = "done"
  /\ UNCHANGED << uvars, reads, sends, week_data, recommendations, report_message >>

\* Lines 36-45: the delegate call fails; the static recommendations take
\* its place and the report is formatted.
GenerateRecommendationsFails ==
  /\ pc = "recommend"
  /\ prompt' = WeeklyPrompt(week_data)
  /\ recommend_exc' = DelegateError
  /\ recommendations' = StaticRecommendations
  /\ report_message' = format_weekly_report(week_data, StaticRecommendations)
  /\ pc' = "send_template"
  /\ UNCHANGED << uvars, exc, reads, sends, http, week_data >>

\* SendTemplate going on to the text message whether or not the template
\* message went through.
SendTemplate_ThenTextAnyway ==
  /\ pc = "send_template"
  /\ \E ok \in BOOLEAN :
       sends' = Append(sends, [to |-> USER_PHONE_NUMBER, type |-> "template",
                               body |-> report_message, ok |-> ok])
  /\ pc' = "send_text"
  /\ http' = http
  /\ UNCHANGED << uvars, exc, reads, wvars >>

\* Lines 48-53 and 61-65: the report goes out as a template message.
SendTemplate ==
  /\ pc = "send_template"
  /\ \E ok \in BOOLEAN :
       /\ sends' = Append(sends, [to |-> USER_PHONE_NUMBER, type |-> "template",
                                  body |-> report_message, ok |-> ok])
       /\ IF ok
            THEN pc' = "done" /\ http' = Reply(200, Some("success"))
            ELSE pc' = "send_text" /\ http' = http
  /\ UNCHANGED << uvars, exc, reads, wvars >>

\* Lines 54-69: the template failed, the report goes out as a text
\* message; when that fails too the run answers 500.
SendText ==
  /\ pc = "send_text"
  /\ \E ok \in BOOLEAN :
       /\ sends' = Append(sends, [to |-> USER_PHONE_NUMBER, type |-> "text",
                                  body |-> report_message, ok |-> ok])
       /\ IF ok
            THEN http' = Reply(200, Some("success")) /\ exc' = "none"
            ELSE http' = Reply(500, Some(SendError)) /\ exc' = SendError
  /\ pc' = "done"
  /\ UNCHANGED << uvars, reads, wvars >>

\* The run has answered: its locals are gone.
WeeklyComplete ==
  /\ pc = "done"
  /\ pc' = "idle"
  /\ exc' = "none"
  /\ reads' = 0
  /\ sends' = << >>
  /\ http' = NoReply
  /\ week_data' = << >>
  /\ prompt' = NoPrompt
  /\ recommend_exc' = "none"
  /\ recommendations' = ""
  /\ report_message' = BlankReport
  /\ UNCHANGED uvars

NextWeekly ==
  \/ GetWeekData
  \/ GetWeekDataFails
  \/ GenerateRecommendations
  \/ GenerateRecommendationsFails
  \/ SendTemplate
  \/ SendText
  \/ WeeklyComplete

SpecWeekly == InitWeekly /\ [][NextWeekly]_vars

(***************************************************************************)
(* Concurrent invocations of update_habit_row for today's date             *)
(* (sheets_client.py lines 79-129).  Each invocation is two requests to    *)
(* the worksheet: find_row_by_date reads the date column, update_cells     *)
(* writes the habit cells, the total and the percentage of the row in one  *)
(* batch request.  The requests of different invocations interleave.       *)
(***************************************************************************)
NumWriters == 2

\* The mappings the invocations are called with: a single habit, a habit
\* with zero minutes beside another, two other habits, and no habit at all.
WriterMaps ==
  { [k \in {"Yoga"} |-> 15],
    [k \in {"Yoga", "Walking/Running"} |-> IF k = "Yoga" THEN 0 ELSE 30],
    EarlierLog,
    EmptyMap }

\* An invocation at its first line.
Writer(m) == [pc |-> "find", habit_data |-> m, row_num |-> 0]

InitWriters ==
  /\ today \in Dates
  /\ sheet \in InitSheets(today)
  /\ sheet0 = sheet
  /\ msgCount = 0
  /\ pc = "idle"
  /\ message_text = NoMessage
  /\ delegate_calls = << >>
  /\ attempts = << >>
  /\ response = NoResponse
  /\ parse_status = "none"
  /\ parse_exc = "none"
  /\ habit_data = EmptyMap
  /\ result = NoResult
  /\ update_exc = "none"
  /\ response_text = BlankText
  /\ exc = "none"
  /\ writes = 0
  /\ reads = 0
  /\ request = NoRequest
  /\ payload = None
  /\ sends = << >>
  /\ http = NoReply
  /\ week_data = << >>
  /\ prompt = NoPrompt
  /\ recommend_exc = "none"
  /\ recommendations = ""
  /\ report_message = BlankReport
  /\ writers \in [1..NumWriters -> {Writer(m) : m \in WriterMaps}]
  /\ applied = << >>
  /\ last_log = NoLog

\* The variables update_habit_row has no access to.
xvars == << today, msgCount, pc, message_text, sheet0, delegate_calls, attempts, response,
            parse_status, parse_exc, habit_data, result, update_exc, response_text, exc,
            hvars, wvars, last_log >>

\* Lines 88-96: the row of the date is looked up; ValueError when no row
\* carries it.
FindRow ==
  \E w \in DOMAIN writers :
    LET row_num == find_row_by_date(sheet, today)
    IN  /\ writers[w].pc = "find"
        /\ writers' = [writers EXCEPT ![w].row_num = row_num,
                                      ![w].pc = IF row_num = 0 THEN "raised" ELSE "write"]
        /\ reads' = reads + 1
        /\ UNCHANGED << sheet, applied, writes, xvars >>

\* Lines 98-123: the cells are built and written by one update_cells
\* request, to the row number found earlier.
UpdateCells ==
  \E w \in DOMAIN writers :
    /\ writers[w].pc = "write"
    /\ sheet' = [sheet EXCEPT ![writers[w].row_num] = UpdatedRow(@, writers[w].habit_data)]
    /\ writers' = [writers EXCEPT ![w].pc = "done"]
    /\ applied' = Append(applied, w)
    /\ writes' = writes + 1
    /\ UNCHANGED << reads, xvars >>

\* Lines 88-89, 123: a worksheet request fails; nothing is written.
WorksheetRequestFails ==
  \E w \in DOMAIN writers :
    /\ writers[w].pc \in {"find", "write"}
    /\ writers' = [writers EXCEPT ![w].pc = "raised"]
    /\ UNCHANGED << sheet, applied, writes, reads, xvars >>

NextWriters == FindRow \/ UpdateCells \/ WorksheetRequestFails

SpecWriters == InitWriters /\ [][NextWriters]_vars

(***************************************************************************)
(* Properties                                                              *)
(***************************************************************************)
\* The delegate's answer is at hand: parse_habit_reply has just ended on it.
Answered == response # NoResponse

\* The mapping the answer carries (its "habits" field, or the object itself).
AnsweredMap == response.body.map

\* C1: parse_habit_reply retries exactly once: whenever it fails on what the
\* delegate answered, it has made exactly 2 delegate calls, both with the
\* message as input, and the failure is the ValueError "Could not parse habit
\* reply"; it never fails after 1 call and never makes a 3rd call.
C1_RetriesExactlyOnce ==
  /\ Len(delegate_calls) <= 2
  /\ (parse_status = "raised" /\ parse_exc # DelegateError) =>
       /\ Len(delegate_calls) = 2
       /\ \A i \in 1..Len(delegate_calls) : delegate_calls[i] = message_text
       /\ parse_exc = CouldNotParse

\* C2: every key of a mapping parse_habit_reply returns is a catalog name:
\* the keys of the answer that are no catalog names are dropped, and the
\* catalog names of the same answer that carry a number are kept.
C2_KeysInCatalog ==
  parse_status = "returned" =>
    /\ \A k \in DOMAIN habit_data : \E i \in DOMAIN HABITS : HABITS[i].name = k
    /\ Answered =>
         \A k \in DOMAIN AnsweredMap :
           /\ (\A i \in DOMAIN HABITS : HABITS[i].name # k) => k \notin DOMAIN habit_data
           /\ ((\E i \in DOMAIN HABITS : HABITS[i].name = k) /\ AnsweredMap[k].t \in {"int", "float"})
                => k \in DOMAIN habit_data

\* C2 witness: an answer with a catalog name among invented names was
\* returned as the catalog name alone.
C2_Witness ==
  /\ parse_status = "returned"
  /\ Answered
  /\ AnsweredMap = FilterTestMap
  /\ DOMAIN habit_data = {"Walking/Running"}

\* C3: when the answer parses as a JSON object that holds no catalog habit,
\* process_user_message returns the "No habits detected" guidance message,
\* not the "couldn't understand / rephrase" message.
C3_NoHabitsDetected ==
  ( /\ pc = "returned"
    /\ Answered
    /\ response.fence # "oneline"
    /\ response.body.j = "object"
    /\ response.body.habits # "other"
    /\ DOMAIN AnsweredMap \cap valid_names = {} )
  => response_text.kind = "no_habits"

\* C4: every value of a mapping parse_habit_reply returns is a non-negative
\* integer, and it stems from a number of the answer: no negative value and
\* no boolean is returned.
C4_NonNegativeMinutes ==
  parse_status = "returned" =>
    \A k \in DOMAIN habit_data :
      /\ habit_data[k] \in Nat
      /\ Answered => AnsweredMap[k].t \in {"int", "float"}

\* update_habit_row has written the row of today and returned.
Written == pc = "returned" /\ result.set

\* The integer minutes of an answer whose values are all integers.
MinutesOf(m) == [k \in DOMAIN m |-> m[k].n]

\* C5: write-then-read round trip: after update_habit_row(today, m) a
\* read-back of today by get_today_data and by get_week_data yields a habit
\* mapping equal to m, and the total and percentage read back are the
\* total_minutes and percentage the write returned.
C5_RoundTrip ==
  Written =>
    LET got == get_today_data(sheet, today)
        week == get_week_data(sheet, << today >>)[1]
    IN  /\ ~got.isnone
        /\ DOMAIN got.data = DOMAIN habit_data
        /\ \A k \in DOMAIN habit_data : got.data[k].k = "int" /\ got.data[k].n = habit_data[k]
        /\ week.habits = habit_data
        /\ week.total = result.total_minutes
        /\ week.percentage = result.percentage

\* The sum of the values of m, habit by habit in catalog order.
RECURSIVE SumUpTo(_, _)
SumUpTo(m, i) ==
  IF i = 0 THEN 0
  ELSE (IF HABITS[i].name \in DOMAIN m THEN m[HABITS[i].name] ELSE 0) + SumUpTo(m, i - 1)

Abs(x) == IF x < 0 THEN -x ELSE x

\* C6: update_habit_row returns total_minutes equal to the sum of the values
\* of the mapping and percentage equal to total_minutes / 215 * 100 rounded
\* to 2 decimals (the hundredth nearest to it), not clamped at 100;
\* {Walking/Running: 45, Sandhi - Morning: 10, Cook Morning: 30} gives 85
\* and 39.53.
C6_DailyScore ==
  Written =>
    /\ result.total_minutes = SumUpTo(habit_data, Len(HABITS))
    /\ 2 * Abs(result.percentage * 215 - result.total_minutes * 10000) <= 215
    /\ habit_data = MinutesOf(ScoreTestMap) =>
         result.total_minutes = 85 /\ result.percentage = 3953

\* C6 witness: a write whose percentage exceeds 100.
C6_Witness == Written /\ result.percentage > 10000

\* What C7 states of a scenario write, for a persisted total of t minutes.
ScenarioOutcome(t) ==
  /\ result.total_minutes = t
  /\ sheet[result.row_number][DATE_COLUMN] = format_date_for_sheet(today)
  /\ sheet[result.row_number][TOTAL_COLUMN] = IntCell(t)
  /\ response_text.kind = "confirmation"
  /\ {response_text.habits[i] : i \in DOMAIN response_text.habits}
       = {<< k, MinutesOf(ScenarioMap)[k] >> : k \in DOMAIN ScenarioMap}
  /\ Len(response_text.habits) = 7
  /\ response_text.total = t
  /\ 2 * Abs(response_text.percentage * 215 - t * 10000) <= 215
  /\ response_text.has_not_logged
  /\ Len(response_text.not_logged) = 4
  /\ {response_text.not_logged[i] : i \in DOMAIN response_text.not_logged}
       = {"Yoga", "Daily Brief", "Upskilling/Professional", "Job Applications"}

\* C7, as claimed: when the delegate answers with the seven habits of the
\* end-to-end scenario and the row of today exists and is written, 135
\* minutes are persisted and the confirmation lists each of the 7 habits,
\* the total and percentage, and as not logged exactly the 4 other catalog
\* habits.
C7_ScenarioPersists135 ==
  (Written /\ habit_data = MinutesOf(ScenarioMap)) => ScenarioOutcome(135)

\* C7, amended: the same, with a persisted total of 140 minutes
\* (45 + 10 + 5 + 30 + 15 + 15 + 20), 65.12 percent.
C7_ScenarioPersists140 ==
  (Written /\ habit_data = MinutesOf(ScenarioMap)) =>
    ScenarioOutcome(140) /\ response_text.percentage = 6512

\* C7 witness: the scenario's mapping was written.
C7_Witness == Written /\ habit_data = MinutesOf(ScenarioMap)

\* C8: the confirmation lists the logged habits in ascending order of name,
\* and its "Not logged" section holds exactly the catalog habits absent from
\* the mapping: the two are disjoint, together they are the catalog, and the
\* section is omitted exactly when the mapping covers all 11 habits.
C8_Confirmation ==
  response_text.kind = "confirmation" =>
    LET listed == {response_text.habits[i][1] : i \in DOMAIN response_text.habits}
        missed == {response_text.not_logged[i] : i \in DOMAIN response_text.not_logged}
    IN  /\ listed = DOMAIN habit_data
        /\ Len(response_text.habits) = Cardinality(listed)
        /\ \A i \in DOMAIN response_text.habits :
             response_text.habits[i][2] = habit_data[response_text.habits[i][1]]
        /\ \A i, j \in DOMAIN response_text.habits :
             i < j => StrRank(response_text.habits[i][1]) < StrRank(response_text.habits[j][1])
        /\ listed \cap missed = {}
        /\ listed \cup missed = valid_names
        /\ Len(response_text.not_logged) = Cardinality(missed)
        /\ response_text.has_not_logged <=> missed # {}
        /\ ~response_text.has_not_logged <=> Cardinality(DOMAIN habit_data) = 11

\* C8 witness: a confirmation of all 11 habits, without the section.
C8_Witness ==
  /\ response_text.kind = "confirmation"
  /\ Cardinality(DOMAIN habit_data) = 11
  /\ ~response_text.has_not_logged

\* C9: a message that is skip, off, rest or leave once trimmed and
\* lowercased is answered by the rest-day acknowledgment, and help or ? by
\* the help text, with the sheet as it was: no storage write, no storage
\* read and no delegate call.
C9_CommandsTouchNothing ==
  (pc \in {"returned", "raised"} /\ message_text \in {"skip", " OFF ", "Rest", "leave", "help", " ? "}) =>
    /\ pc = "returned"
    /\ message_text \in {"skip", " OFF ", "Rest", "leave"} => response_text = handle_skip(today)
    /\ message_text \in {"help", " ? "} => response_text = HELP_MESSAGE
    /\ sheet = sheet0
    /\ writes = 0
    /\ reads = 0
    /\ delegate_calls = << >>

\* C9 witness: a padded, upper-case command was acknowledged as a rest day.
C9_Witness ==
  pc = "returned" /\ message_text = " OFF " /\ response_text.kind = "rest_day"

\* Interpretation succeeded and the persistence step that followed failed.
PersistenceFailed == pc = "returned" /\ parse_status = "returned" /\ update_exc # "none"

\* C10, as claimed: whenever interpretation succeeded and the persistence
\* step fails for any reason, the returned text holds every habit and
\* minutes value of the mapping and the error description.
C10_AnyFailureReportsParsed ==
  PersistenceFailed =>
    /\ response_text.parsed = {<< k, habit_data[k] >> : k \in DOMAIN habit_data}
    /\ response_text.error = update_exc

\* C10, amended: whenever interpretation succeeded and the persistence step
\* fails, the returned text holds the error description; it holds every
\* habit and minutes value of the mapping unless the failure is a ValueError
\* (the missing row, malformed credentials), in which case the text is
\* "Could not update sheet" with the error alone.
C10_FailureReportsParsedUnlessValueError ==
  PersistenceFailed =>
    /\ response_text.error = update_exc
    /\ IF update_exc \in {RowNotFound, CredentialsError}
         THEN response_text.kind = "could_not_update" /\ response_text.parsed = {}
         ELSE /\ response_text.kind = "parsed_but_failed"
              /\ response_text.parsed = {<< k, habit_data[k] >> : k \in DOMAIN habit_data}

\* C10 witness: the sheet update failed with an API error and the text
\* holds the parsed habits.
C10_Witness ==
  /\ PersistenceFailed
  /\ update_exc = APIError
  /\ response_text.parsed # {}

\* No row of the worksheet carries the date.
NoRowFor(worksheet, date) ==
  \A i \in DOMAIN worksheet : worksheet[i][DATE_COLUMN] # format_date_for_sheet(date)

\* update_habit_row has run to its end or to its own raise (no worksheet
\* call failed under it).
UpdateRan ==
  /\ pc = "returned"
  /\ parse_status = "returned"
  /\ habit_data # EmptyMap
  /\ update_exc \notin {APIError, CredentialsError}

\* C11: when no row exists for the target date, update_habit_row fails with
\* the ValueError "Row not found" carrying the date before any cell is
\* written, process_user_message returns the "Could not update sheet" text
\* with that error and date, and the sheet is unchanged.
C11_RowNotFoundSurfaced ==
  (UpdateRan /\ NoRowFor(sheet0, today)) =>
    /\ update_exc = RowNotFound
    /\ IsValueError(update_exc)
    /\ response_text.kind = "could_not_update"
    /\ response_text.error = RowNotFound
    /\ response_text.date = today
    /\ writes = 0
    /\ result = NoResult
    /\ sheet = sheet0

\* C11 witness: an update was attempted on a worksheet holding rows of
\* another date only, and the missing row was reported.
C11_Witness ==
  /\ UpdateRan
  /\ NoRowFor(sheet0, today)
  /\ Len(sheet0) > DATA_START_ROW - 1
  /\ response_text.kind = "could_not_update"
  /\ response_text.date = today

\* The request being served is a POST with a signature that validates,
\* carrying a text message of the configured user.
SignedUserText ==
  /\ request.method = "POST"
  /\ validate_webhook_signature(request.body, request.signature)
  /\ request.body.kind = "text"
  /\ request.body.from = USER_PHONE_NUMBER

\* C12: for every signed POST carrying a text message of the configured
\* user, whatever fails during message processing or reply sending, the
\* handler ends with a reply text sent to the user (the result or the
\* apology) and answers 200: no failure leaves the handler.
C12_AlwaysRepliesWith200 ==
  (pc = "done" /\ SignedUserText) =>
    /\ http = Reply(200, Some("OK"))
    /\ \E i \in DOMAIN sends :
         /\ sends[i].ok
         /\ sends[i].to = USER_PHONE_NUMBER
         /\ sends[i].body \in {response_text, ErrorMessage}

\* A signature header with one leading "sha256=" taken off.
StripPrefix(signature_header) ==
  IF signature_header # << >> /\ Head(signature_header) = Sha256Prefix
    THEN Tail(signature_header)
    ELSE signature_header

\* The signature header of the request is there and, its prefix stripped,
\* is the hex HMAC-SHA256 of the body under the app secret.
SignatureMatches ==
  /\ request.signature # << >>
  /\ StripPrefix(request.signature) = << HmacHex(META_APP_SECRET, request.body) >>

\* Nothing was processed for the request: no payload parsed, no delegate
\* call, no worksheet access, no outbound message.
NothingProcessed ==
  /\ payload = None
  /\ delegate_calls = << >>
  /\ reads = 0
  /\ writes = 0
  /\ sends = << >>
  /\ sheet = sheet0

\* C13: a POST whose signature header is absent, or is not the hex
\* HMAC-SHA256 of the raw body under the app secret once the "sha256="
\* prefix is stripped, is answered 403 with nothing processed.
C13_BadSignatureRejected ==
  (request.method = "POST" /\ ~ SignatureMatches) =>
    /\ pc = "done"
    /\ http = Reply(403, Some("Invalid signature"))
    /\ NothingProcessed

\* A GET has been answered.
GetAnswered == pc = "done" /\ request.method = "GET"

\* The mode is "subscribe" and the verify token is the configured secret.
ModeAndTokenMatch ==
  /\ request.args.mode = Some("subscribe")
  /\ request.args.verify_token = Some(WHATSAPP_VERIFY_TOKEN)

\* C14, as claimed: a GET is answered 200 with the challenge if and only
\* if the mode is "subscribe" and the verify token is the configured
\* secret, whatever the challenge is; every other GET is answered 403.
C14_EchoIffModeAndToken ==
  GetAnswered =>
    IF ModeAndTokenMatch
      THEN http = Reply(200, request.args.challenge)
      ELSE http.status = 403

\* C14, amended: a GET is answered 200 with the challenge if and only if
\* the mode is "subscribe", the verify token is the configured secret and
\* the challenge is there and not empty; every other GET is answered 403
\* "Verification failed". Nothing else is touched.
C14_EchoIffModeTokenAndChallenge ==
  GetAnswered =>
    /\ IF ModeAndTokenMatch /\ Truthy(request.args.challenge)
         THEN http = Reply(200, request.args.challenge)
         ELSE http = Reply(403, Some("Verification failed"))
    /\ NothingProcessed

\* C14 witness: a verification was answered with its challenge.
C14_Witness ==
  /\ GetAnswered
  /\ ModeAndTokenMatch
  /\ http = Reply(200, Some("1158201444"))

\* send_weekly_report has formatted its report.
ReportFormatted == pc \in {"send_template", "send_text", "done"} /\ week_data # << >>

\* No day of the week read is active: each is an off-day or has an empty
\* habit mapping.
NoActiveDay ==
  \A i \in DOMAIN week_data : week_data[i].is_off_day \/ week_data[i].habits = EmptyMap

\* C15: for every week in which no day is active, the statistics of the
\* week are computed without failure (they are the "no active days"
\* state) and format_weekly_report returns the fixed "No habits logged
\* this week" message, whatever the recommendations and the other fields
\* of the records are.
C15_NoActiveDaysFixedMessage ==
  (ReportFormatted /\ NoActiveDay) =>
    /\ prompt.stats = [BlankStats EXCEPT !.kind = "no_active_days_this_week"]
    /\ Len(prompt.summary_lines) = Len(week_data)
    /\ report_message = NoHabitsLoggedMessage

\* C15 witness: a week of a noted day, a blank row and days without rows
\* got the fixed message although the delegate gave recommendations.
C15_Witness ==
  /\ ReportFormatted
  /\ NoActiveDay
  /\ \E i \in DOMAIN week_data : week_data[i].note = "SICK"
  /\ \E i \in DOMAIN week_data : ~ week_data[i].is_off_day /\ week_data[i].total > 0
  /\ recommendations \notin {"", StaticRecommendations}
  /\ report_message = NoHabitsLoggedMessage

\* The week read has an active day.
SomeActiveDay == ~ NoActiveDay

\* On how many active days of the week read the habit occurs.
Frequency(name) ==
  Cardinality({i \in DOMAIN week_data :
                 ~ week_data[i].is_off_day /\ name \in DOMAIN week_data[i].habits})

\* The habits that occur on an active day of the week read.
HabitsSeen == {name \in valid_names : Frequency(name) > 0}

\* The position of a habit in the catalog.
CatalogIndex(name) == CHOOSE i \in DOMAIN HABITS : HABITS[i].name = name

\* C16: in the weekly statistics the most-consistent habit has the highest
\* occurrence count over the active days and, among the habits sharing
\* that count, comes first in catalog order; the least-done habit has the
\* lowest occurrence count.
C16_MostConsistentCatalogFirst ==
  (ReportFormatted /\ SomeActiveDay) =>
    LET most == prompt.stats.most_consistent
        least == prompt.stats.least_done
    IN  /\ most \in HabitsSeen
        /\ \A h \in HabitsSeen : Frequency(h) <= Frequency(most)
        /\ \A h \in HabitsSeen :
             Frequency(h) = Frequency(most) => CatalogIndex(most) <= CatalogIndex(h)
        /\ report_message.most_consistent = most
        /\ least \in HabitsSeen
        /\ \A h \in HabitsSeen : Frequency(least) <= Frequency(h)

\* The first day of the week read on which the habit occurs.
FirstDay(name) ==
  CHOOSE i \in DOMAIN week_data :
    /\ ~ week_data[i].is_off_day /\ name \in DOMAIN week_data[i].habits
    /\ \A j \in 1..(i - 1) :
         week_data[j].is_off_day \/ name \notin DOMAIN week_data[j].habits

\* First-seen order: by the first day a habit occurs on and, within a day,
\* by the order the day's habits were read in.
SeenBefore(a, b) ==
  \/ FirstDay(a) < FirstDay(b)
  \/ FirstDay(a) = FirstDay(b) /\ CatalogIndex(a) < CatalogIndex(b)

\* The "Needs work" line of the report lists, of the habits of `due`, the
\* first three in first-seen order, and is left out only when `due` is
\* empty.
NeedsWorkLists(due) ==
  LET listed == report_message.needs_work
      names == {listed[i] : i \in DOMAIN listed}
  IN  /\ report_message.has_needs_work <=> due # {}
      /\ names \subseteq due
      /\ Len(listed) = IF Cardinality(due) < 3 THEN Cardinality(due) ELSE 3
      /\ \A i, j \in DOMAIN listed :
           (i < j /\ listed[i] \in HabitsSeen /\ listed[j] \in HabitsSeen)
             => SeenBefore(listed[i], listed[j])
      /\ \A h \in (due \cap HabitsSeen) \ names :
           \A i \in DOMAIN listed : listed[i] \in HabitsSeen /\ SeenBefore(listed[i], h)

\* C17: for every week with an active day, the "Needs work" line lists the
\* habits whose frequency across the week is at most 1, in first-seen
\* order, cut to the first 3, and is left out only when no habit has a
\* frequency of at most 1.
C17_NeedsWorkAtMostOnce ==
  (ReportFormatted /\ SomeActiveDay) =>
    NeedsWorkLists({h \in valid_names : Frequency(h) <= 1})

\* The recommendation delegate call of the run failed.
RecommendationFailed == recommend_exc # "none"

\* A send of the run went through.
SomeSendOk == \E i \in DOMAIN sends : sends[i].ok

\* C18: in send_weekly_report a failure of the recommendation delegate
\* call is recovered with the static recommendations and never surfaced:
\* the report is formatted with them and sent, and the run answers as it
\* does when the delegate succeeds, 200 if a send went through and 500
\* with the send error if none did, whatever the delegate did.
C18_RecommendationFailureRecovered ==
  /\ (ReportFormatted /\ RecommendationFailed) =>
       /\ recommendations = StaticRecommendations
       /\ report_message = format_weekly_report(week_data, StaticRecommendations)
       /\ exc # recommend_exc
  /\ (pc = "done" /\ week_data # << >>) =>
       /\ report_message # BlankReport
       /\ sends # << >>
       /\ \A i \in DOMAIN sends : sends[i].body = report_message
       /\ http = IF SomeSendOk
                   THEN Reply(200, Some("success"))
                   ELSE Reply(500, Some(SendError))

\* C18 witness: the delegate failed and the report, with the static
\* recommendations, went out: the run answered 200.
C18_Witness ==
  /\ pc = "done"
  /\ RecommendationFailed
  /\ report_message.kind = "weekly_report"
  /\ report_message.recommendations = StaticRecommendations
  /\ SomeSendOk
  /\ http.status = 200

\* C19: DAILY_TARGET_MINUTES, the denominator of the percentage, is 215,
\* the sum of the targets of all catalog habits but Job Applications; the
\* catalog has exactly 11 habits, each with a positive target, in the
\* storage slots 2..12 in catalog order; and no step changes any of it:
\* every row written has the habits in these slots and its percentage
\* over 215.
C19_DailyTargetAndCatalog ==
  /\ DAILY_TARGET_MINUTES = 215
  /\ DAILY_TARGET_MINUTES =
       SumValues([i \in {j \in DOMAIN HABITS : HABITS[j].name # "Job Applications"} |->
                    HABITS[i].target_mins])
  /\ Len(HABITS) = 11
  /\ NUM_HABIT_COLUMNS = Len(HABITS)
  /\ \A i \in DOMAIN HABITS : HABITS[i].target_mins > 0 /\ HABITS[i].column_index = i + 1
  /\ Cardinality(valid_names) = 11
  /\ Written =>
       /\ \A i \in DOMAIN HABITS :
            sheet[result.row_number][i + 2] = HabitCell(habit_data, HABITS[i].name)
       /\ 2 * Abs(result.percentage * 215 - result.total_minutes * 10000) <= 215

\* C19 witness: every habit was logged at its target: the total written is
\* the daily target and the target of Job Applications, over 100 percent.
C19_Witness ==
  /\ Written
  /\ habit_data = MinutesOf(AllDefaultsMap)
  /\ result.total_minutes = DAILY_TARGET_MINUTES + get_habit_by_name("Job Applications").target_mins
  /\ result.percentage = 10698

\* The habit names a compound alias expands to.
Expansion(alias) == {COMPOUND_ALIASES[alias][i] : i \in DOMAIN COMPOUND_ALIASES[alias]}

\* C20: every habit name a compound alias refers to is a catalog name, and
\* the aliases expand to exactly what is configured: "sandhi both" to
\* Sandhi - Morning and Sandhi - Evening, "household" to Cook Morning,
\* Utensils and Clothes; an answer of the delegate that holds an expansion
\* with minutes keeps all of it through validation.
C20_CompoundAliases ==
  /\ \A alias \in DOMAIN COMPOUND_ALIASES :
       /\ Expansion(alias) \subseteq valid_names
       /\ Cardinality(Expansion(alias)) = Len(COMPOUND_ALIASES[alias])
  /\ Expansion("sandhi both") = {"Sandhi - Morning", "Sandhi - Evening"}
  /\ Expansion("household") = {"Cook Morning", "Utensils", "Clothes"}
  /\ (parse_status = "returned" /\ Answered) =>
       \A alias \in DOMAIN COMPOUND_ALIASES :
         (/\ Expansion(alias) \subseteq DOMAIN AnsweredMap
          /\ \A k \in Expansion(alias) : AnsweredMap[k].t \in {"int", "float"})
           => Expansion(alias) \subseteq DOMAIN habit_data

\* C20 witness: the message with "sandhi both" and the household chores
\* was answered with both expansions, and validation kept them.
C20_Witness ==
  /\ parse_status = "returned"
  /\ Answered
  /\ message_text = "walked 45, sandhi both, cooked, utensils, clothes, read 20"
  /\ AnsweredMap = ScenarioMap
  /\ Expansion("sandhi both") \cup Expansion("household") \subseteq DOMAIN habit_data

(***************************************************************************)
(* Claims about concurrent writes of one row.                              *)
(***************************************************************************)
\* The invocation whose update_cells request was applied last.
LastWriter == writers[applied[Len(applied)]]

\* The gspread column of a habit of the catalog.
HabitColumn(i) == HABITS[i].column_index + 1

\* C21: after any interleaving of the requests of successful update_habit_row
\* invocations for the same date, the habit cells, the total and the
\* percentage of the row are those of the invocation whose write was
\* applied last, and the cell of every habit absent from that invocation's
\* mapping is empty, whatever an earlier write had put there.
C21_LastWriterWins ==
  applied # << >> =>
    LET m   == LastWriter.habit_data
        row == sheet[LastWriter.row_num]
    IN  /\ row[DATE_COLUMN] = format_date_for_sheet(today)
        /\ \A i \in DOMAIN HABITS :
             /\ row[HabitColumn(i)] = HabitCell(m, HABITS[i].name)
             /\ HABITS[i].name \notin DOMAIN m => row[HabitColumn(i)] = EmptyCell
        /\ row[TOTAL_COLUMN] = IntCell(SumValues(m))
        /\ row[PERCENTAGE_COLUMN] = FormatPercentage(SumValues(m))

\* Both invocations looked the row up before either wrote; the first write
\* logged Yoga, the last one did not, and Yoga's cell is empty again.
C21_Witness ==
  /\ Len(applied) = NumWriters
  /\ writers[applied[1]].habit_data = [k \in {"Yoga"} |-> 15]
  /\ LastWriter.habit_data = EarlierLog
  /\ reads = NumWriters
  /\ sheet[LastWriter.row_num][get_habit_by_name("Yoga").column_index + 1] = EmptyCell
  /\ sheet[LastWriter.row_num][TOTAL_COLUMN] = IntCell(65)

(***************************************************************************)
(* Claims about the order of the calls inside one invocation.              *)
(***************************************************************************)
\* parse_habit_reply has just ended on what the delegate answered.
ParseEnded == Answered /\ parse_status \in {"returned", "raised"} /\ parse_exc # DelegateError

SendsOk == {i \in DOMAIN sends : sends[i].ok}

\* C23: send_weekly_report sends the report as a template message first and
\* as a text message only after the template send failed; a finished run
\* answers 200 "success" exactly when one of the two sends went through and
\* 500 otherwise, and at most one send of a run goes through.
C23_TemplateThenTextOnce ==
  /\ Len(sends) <= 2
  /\ \A i \in DOMAIN sends :
       /\ sends[i].to = USER_PHONE_NUMBER
       /\ sends[i].body = report_message
  /\ Len(sends) >= 1 => sends[1].type = "template"
  /\ Len(sends) = 2 => sends[2].type = "text" /\ ~sends[1].ok
  /\ Cardinality(SendsOk) <= 1
  /\ pc = "send_text" => Len(sends) = 1 /\ ~sends[1].ok
  /\ pc = "done" =>
       /\ http.status \in {200, 500}
       /\ http.status = 200 <=> SendsOk # {}
       /\ http.status = 200 => http = Reply(200, Some("success"))
       /\ (sends # << >> /\ SendsOk = {}) => Len(sends) = 2

\* C23 witness: the template send failed, the text send went through and
\* the run answered 200.
C23_Witness ==
  /\ pc = "done"
  /\ Len(sends) = 2
  /\ ~sends[1].ok
  /\ sends[2].ok
  /\ sends[2].type = "text"
  /\ http = Reply(200, Some("success"))

\* C24: within one inbound message a storage write happens only after
\* parse_habit_reply has returned a non-empty validated mapping, and at most
\* one happens; when parse_habit_reply raises, nothing is read from or
\* written to the worksheet and it is as it was when the message arrived.
C24_WriteOnlyAfterParse ==
  /\ writes <= 1
  /\ (writes = 1 \/ sheet # sheet0) =>
       /\ parse_status = "returned"
       /\ habit_data # EmptyMap
       /\ attempts[Len(attempts)] = "return"
  /\ sheet # sheet0 => writes = 1
  /\ pc = "update" => parse_status = "returned" /\ habit_data # EmptyMap /\ writes = 0
  /\ parse_status = "raised" =>
       /\ reads = 0
       /\ writes = 0
       /\ sheet = sheet0
       /\ ~result.set

\* C24 witness: the second answer of the delegate was usable and the row of
\* today was written once.
C24_Witness ==
  /\ Written
  /\ writes = 1
  /\ Len(delegate_calls) = 2
  /\ sheet # sheet0
  /\ habit_data # EmptyMap

(***************************************************************************)
(* Claims about what the handlers leave alone.                             *)
(***************************************************************************)
\* The request is a correctly signed POST without a text message, or with a
\* text message of a number other than the configured user.
SignedButIgnored ==
  /\ request.method = "POST"
  /\ SignatureMatches
  /\ request.body.kind # "text" \/ request.body.from # USER_PHONE_NUMBER

\* C25: a correctly signed POST whose text message comes from another
\* number than the configured user, or that carries no text message (a
\* status update, a non-text message, an empty body), is acknowledged with
\* 200 "OK" and has no effect: process_user_message is not entered, no
\* delegate call, no worksheet read or write, no outbound message.
C25_IgnoredPostHasNoEffect ==
  SignedButIgnored =>
    /\ pc = "done"
    /\ http = Reply(200, Some("OK"))
    /\ message_text = NoMessage
    /\ delegate_calls = << >>
    /\ reads = 0
    /\ writes = 0
    /\ sends = << >>
    /\ sheet = sheet0
    /\ response_text = BlankText

\* C25 witness: after an earlier message of the user, a signed habit log of
\* another number was acknowledged.
C25_Witness ==
  /\ SignedButIgnored
  /\ msgCount >= 1
  /\ request.body.kind = "text"
  /\ request.body.from = "919000000002"
  /\ request.body.text = "walked 45, sandhi both, cooked, utensils, clothes, read 20"
  /\ http.status = 200

\* The status command has been answered.
StatusAnswered == pc = "returned" /\ lower_strip(message_text) \in {"status", "today"}

\* Today has no row, or no habit cell of its row holds a value.
NothingLogged ==
  \/ find_row_by_date(sheet, today) = 0
  \/ \A i \in DOMAIN HABITS : sheet[find_row_by_date(sheet, today)][HabitColumn(i)] = EmptyCell

\* C26: the status command is read-only and reflects the last write: it
\* writes nothing and calls no delegate; after a successful log of a mapping
\* for today it lists exactly the habits of that mapping with their minutes,
\* sorted by name, and the total the write reported; when today has no row
\* or no logged value it answers "No habits logged yet".
C26_StatusReflectsLastWrite ==
  StatusAnswered =>
    /\ writes = 0
    /\ delegate_calls = << >>
    /\ sheet = sheet0
    /\ last_log.set =>
         /\ response_text.kind = "status"
         /\ response_text.habits = SortedItems(last_log.habit_data)
         /\ response_text.total = last_log.total_minutes
    /\ (~last_log.set /\ NothingLogged) => response_text.kind = "status_none"

====
